---- MODULE Spec2Model ----
(***************************************************************************)
(* pantryBot: the recipe-to-pantry reconciliation core.                    *)
(*                                                                         *)
(* Numbers are fixed-point integers in thousandths (12 pieces = 12000), so *)
(* that rounding to two decimals is a real operation. Free-text names are  *)
(* sequences of one-character strings, so that lower-casing, trimming and  *)
(* the word-boundary regular expressions are computed, not assumed.        *)
(* A nullable column or optional field is a sequence of length 0 or 1.     *)
(***************************************************************************)
EXTENDS Integers, Sequences, FiniteSets, TLC

\* ---------------------------------------------------------------- bounds

\* Operations (service calls) started in one behaviour.
MaxOps == 2

\* ------------------------------------------------------------- optionals

None == << >>
Some(v) == << v >>
IsSet(o) == o # << >>
Val(o) == o[1]

Max(a, b) == IF a >= b THEN a ELSE b

\* F applied to the value of v, with v evaluated once.
Once(v, F(_)) == CHOOSE r \in { F(x) : x \in { v } } : TRUE

SeqRange(s) == { s[i] : i \in 1..Len(s) }

\* ------------------------------------------------------- JS number model

\* Math.round(x * 100) / 100 on thousandths: round half up to a multiple of 10.
Round2(x) == ((x + 5) \div 10) * 10

\* PostgreSQL decimal(10, 2) on write: round half away from zero.
DbDecimal(x) == IF x >= 0 THEN ((x + 5) \div 10) * 10 ELSE 0 - (((0 - x) + 5) \div 10) * 10

\* newQuantity < 0.9 * originalQuantity, in exact arithmetic.
BelowThreshold(newQuantity, originalQuantity) == 10 * newQuantity < 9 * originalQuantity

\* ------------------------------------------------------------ text model

LowerAlpha == << "a", "b", "c", "d", "e", "f", "g", "h", "i", "j", "k", "l", "m",
                 "n", "o", "p", "q", "r", "s", "t", "u", "v", "w", "x", "y", "z" >>
UpperAlpha == << "A", "B", "C", "D", "E", "F", "G", "H", "I", "J", "K", "L", "M",
                 "N", "O", "P", "Q", "R", "S", "T", "U", "V", "W", "X", "Y", "Z" >>
Digits == { "0", "1", "2", "3", "4", "5", "6", "7", "8", "9" }

\* String.prototype.toLowerCase, one character.
ToLowerChar(c) ==
    IF \E i \in 1..Len(UpperAlpha) : UpperAlpha[i] = c
    THEN LowerAlpha[CHOOSE i \in 1..Len(UpperAlpha) : UpperAlpha[i] = c]
    ELSE c

ToLowerCase(s) == [i \in 1..Len(s) |-> ToLowerChar(s[i])]

IsSpace(c) == c = " "

\* String.prototype.trim: drop leading and trailing white space.
Trim(s) ==
    IF \A i \in 1..Len(s) : IsSpace(s[i]) THEN << >>
    ELSE LET first == CHOOSE i \in 1..Len(s) :
                          ~IsSpace(s[i]) /\ \A j \in 1..(i - 1) : IsSpace(s[j])
             last == CHOOSE i \in 1..Len(s) :
                          ~IsSpace(s[i]) /\ \A j \in (i + 1)..Len(s) : IsSpace(s[j])
         IN SubSeq(s, first, last)

\* name.toLowerCase().trim()
NormalizeName(s) == Trim(ToLowerCase(s))

\* \w of a regular expression.
IsWordChar(c) ==
    \/ c \in SeqRange(LowerAlpha)
    \/ c \in SeqRange(UpperAlpha)
    \/ c \in Digits
    \/ c = "_"

\* \b at the gap before text[k] (k in 1..Len(text)+1).
WordBoundaryAt(text, k) ==
    LET before == k > 1 /\ IsWordChar(text[k - 1])
        after == k <= Len(text) /\ IsWordChar(text[k])
    IN before # after

\* WordRegexTest without the word boundaries: pat occurs anywhere in text.
WordRegexTestNoBoundary(pat, text) ==
    \E i \in 1..(Len(text) + 1) :
        /\ i + Len(pat) - 1 <= Len(text)
        /\ \A j \in 1..Len(pat) : ToLowerChar(text[i + j - 1]) = ToLowerChar(pat[j])

\* new RegExp(`\\b${escapeRegex(pat)}\\b`, "i").test(text): pat occurs literally
\* (escapeRegex makes every metacharacter literal), case-insensitively, with a
\* word boundary on both sides.
WordRegexTest(pat, text) ==
    \E i \in 1..(Len(text) + 1) :
        /\ i + Len(pat) - 1 <= Len(text)
        /\ \A j \in 1..Len(pat) : ToLowerChar(text[i + j - 1]) = ToLowerChar(pat[j])
        /\ WordBoundaryAt(text, i)
        /\ WordBoundaryAt(text, i + Len(pat))

\* Raw substring containment (String.prototype.includes), for comparison.
Includes(text, pat) ==
    \E i \in 1..(Len(text) + 1) :
        /\ i + Len(pat) - 1 <= Len(text)
        /\ \A j \in 1..Len(pat) : text[i + j - 1] = pat[j]

\* ------------------------------------------------------- unit conversion

\* Unit spellings of the model that are not already lower-case and trimmed,
\* with what unit.toLowerCase().trim() makes of them.
UnitSpelling ==
    [u \in { "Cups", "TBSP", " g ", "Piece" } |->
        CASE u = "Cups" -> "cups"
          [] u = "TBSP" -> "tbsp"
          [] u = " g " -> "g"
          [] u = "Piece" -> "piece"]

LowerTrimUnit(u) == IF u \in DOMAIN UnitSpelling THEN UnitSpelling[u] ELSE u

VolumeUnits == { "tsp", "tbsp", "fl oz", "cup", "ml", "l" }
WeightUnits == { "g", "kg", "oz", "lb" }
CountUnits == { "piece", "each", "bunch", "can", "bag", "box", "bottle", "jar" }

\* toBase, in ten-thousandths of the base unit (ml or g).
ToBase(u) ==
    CASE u = "tsp" -> 49290
      [] u = "tbsp" -> 147870
      [] u = "fl oz" -> 295740
      [] u = "cup" -> 2365880
      [] u = "ml" -> 10000
      [] u = "l" -> 10000000
      [] u = "g" -> 10000
      [] u = "kg" -> 10000000
      [] u = "oz" -> 283495
      [] u = "lb" -> 4535920
      [] OTHER -> 10000

UNIT_MAP ==
    [u \in VolumeUnits \cup WeightUnits \cup CountUnits |->
        [group |-> IF u \in VolumeUnits THEN "volume"
                   ELSE IF u \in WeightUnits THEN "weight" ELSE "count",
         toBase |-> ToBase(u)]]

ALIASES ==
    [a \in { "teaspoon", "teaspoons", "tablespoon", "tablespoons", "fluid ounce",
             "fluid ounces", "cups", "milliliter", "milliliters", "millilitre",
             "millilitres", "liter", "liters", "litre", "litres", "gram", "grams",
             "kilogram", "kilograms", "ounce", "ounces", "pound", "pounds", "lbs",
             "pieces", "bunches", "cans", "bags", "boxes", "bottles", "jars" } |->
        CASE a \in { "teaspoon", "teaspoons" } -> "tsp"
          [] a \in { "tablespoon", "tablespoons" } -> "tbsp"
          [] a \in { "fluid ounce", "fluid ounces" } -> "fl oz"
          [] a = "cups" -> "cup"
          [] a \in { "milliliter", "milliliters", "millilitre", "millilitres" } -> "ml"
          [] a \in { "liter", "liters", "litre", "litres" } -> "l"
          [] a \in { "gram", "grams" } -> "g"
          [] a \in { "kilogram", "kilograms" } -> "kg"
          [] a \in { "ounce", "ounces" } -> "oz"
          [] a \in { "pound", "pounds", "lbs" } -> "lb"
          [] a = "pieces" -> "piece"
          [] a = "bunches" -> "bunch"
          [] a = "cans" -> "can"
          [] a = "bags" -> "bag"
          [] a = "boxes" -> "box"
          [] a = "bottles" -> "bottle"
          [] a = "jars" -> "jar"]

\* normalize without the alias table.
normalizeWithoutAliases(unit) == LowerTrimUnit(unit)

normalize(unit) ==
    LET lower == LowerTrimUnit(unit)
    IN IF lower \in DOMAIN ALIASES THEN ALIASES[lower] ELSE lower

RECURSIVE Gcd(_, _)
Gcd(a, b) == IF b = 0 THEN a ELSE Gcd(b, a % b)

\* amount * fromBase / toBase to the thousandth (the code divides in floating
\* point); the ratio is reduced first so that the product stays in range.
ScaleByRatio(amount, fromBase, toBase) ==
    LET g == Gcd(fromBase, toBase)
    IN (amount * (fromBase \div g)) \div (toBase \div g)

\* tryConvert that hands back the amount when a unit is not in UNIT_MAP.
tryConvertUnknownUnchanged(amount, fromUnit, toUnit) ==
    LET from == normalize(fromUnit)
        to == normalize(toUnit)
    IN IF from = to THEN Some(amount)
       ELSE IF from \notin DOMAIN UNIT_MAP \/ to \notin DOMAIN UNIT_MAP THEN Some(amount)
       ELSE IF UNIT_MAP[from].group # UNIT_MAP[to].group THEN None
       ELSE IF UNIT_MAP[from].group = "count" /\ from # to THEN None
       ELSE Some(ScaleByRatio(amount, UNIT_MAP[from].toBase, UNIT_MAP[to].toBase))

\* tryConvert without the test for two different count units.
tryConvertAcrossCounts(amount, fromUnit, toUnit) ==
    LET from == normalize(fromUnit)
        to == normalize(toUnit)
    IN IF from = to THEN Some(amount)
       ELSE IF from \notin DOMAIN UNIT_MAP \/ to \notin DOMAIN UNIT_MAP THEN None
       ELSE IF UNIT_MAP[from].group # UNIT_MAP[to].group THEN None
       ELSE Some(ScaleByRatio(amount, UNIT_MAP[from].toBase, UNIT_MAP[to].toBase))

\* tryConvert: None is null (incompatible).
tryConvert(amount, fromUnit, toUnit) ==
    LET from == normalize(fromUnit)
        to == normalize(toUnit)
    IN IF from = to THEN Some(amount)
       ELSE IF from \notin DOMAIN UNIT_MAP \/ to \notin DOMAIN UNIT_MAP THEN None
       ELSE IF UNIT_MAP[from].group # UNIT_MAP[to].group THEN None
       ELSE IF UNIT_MAP[from].group = "count" /\ from # to THEN None
       ELSE Some(ScaleByRatio(amount, UNIT_MAP[from].toBase, UNIT_MAP[to].toBase))

\* ----------------------------------------------------------------- names

\* Free-text names of the model, as character sequences.
Str_Eggs == << "E", "g", "g", "s" >>
Str_eggs == << "e", "g", "g", "s" >>
Str_eggs_padded == << " ", "e", "g", "g", "s", " " >>
Str_olive_oil == << "o", "l", "i", "v", "e", " ", "o", "i", "l" >>
Str_oil == << "o", "i", "l" >>
Str_olive == << "o", "l", "i", "v", "e" >>
Str_foil == << "f", "o", "i", "l" >>
Str_salt == << "s", "a", "l", "t" >>
Str_saffron == << "s", "a", "f", "f", "r", "o", "n" >>
Str_unknown_ingredient == << "u", "n", "k", "n", "o", "w", "n", " ", "i", "n", "g", "r", "e", "d", "i", "e", "n", "t" >>
Str_Auto_Replenish == << "A", "u", "t", "o", "-", "R", "e", "p", "l", "e", "n", "i", "s", "h" >>

DEFAULT_STAPLE_NAMES ==
    << << "e", "g", "g", "s" >>,
       << "m", "i", "l", "k" >>,
       << "f", "l", "o", "u", "r" >>,
       << "s", "u", "g", "a", "r" >>,
       << "b", "u", "t", "t", "e", "r" >>,
       << "s", "a", "l", "t" >>,
       << "p", "e", "p", "p", "e", "r" >>,
       << "o", "l", "i", "v", "e", " ", "o", "i", "l" >>,
       << "v", "e", "g", "e", "t", "a", "b", "l", "e", " ", "o", "i", "l" >>,
       << "g", "a", "r", "l", "i", "c" >>,
       << "o", "n", "i", "o", "n" >>,
       << "r", "i", "c", "e" >>,
       << "b", "r", "e", "a", "d" >>,
       << "c", "h", "e", "e", "s", "e" >>,
       << "p", "a", "s", "t", "a" >>,
       << "b", "a", "k", "i", "n", "g", " ", "p", "o", "w", "d", "e", "r" >>,
       << "b", "a", "k", "i", "n", "g", " ", "s", "o", "d", "a" >> >>

isDefaultStaple(name) ==
    LET lower == NormalizeName(name)
    IN \E k \in 1..Len(DEFAULT_STAPLE_NAMES) :
           LET s == DEFAULT_STAPLE_NAMES[k]
           IN lower = s \/ Includes(lower, s) \/ Includes(s, lower)

\* Byte-wise code of the characters the model's names use (ORDER BY name).
CharCode(c) ==
    IF c = " " THEN 32
    ELSE IF c = "-" THEN 45
    ELSE IF c \in Digits THEN 48
    ELSE IF \E i \in 1..Len(UpperAlpha) : UpperAlpha[i] = c
         THEN 64 + (CHOOSE i \in 1..Len(UpperAlpha) : UpperAlpha[i] = c)
    ELSE IF c = "_" THEN 95
    ELSE IF \E i \in 1..Len(LowerAlpha) : LowerAlpha[i] = c
         THEN 96 + (CHOOSE i \in 1..Len(LowerAlpha) : LowerAlpha[i] = c)
    ELSE 127

RECURSIVE StrLeq(_, _)
StrLeq(a, b) ==
    IF a = << >> THEN TRUE
    ELSE IF b = << >> THEN FALSE
    ELSE IF CharCode(Head(a)) # CharCode(Head(b)) THEN CharCode(Head(a)) < CharCode(Head(b))
    ELSE StrLeq(Tail(a), Tail(b))

\* ---------------------------------------------------------- recipe store

Users == { 1, 2 }

Ingredient(name, original, amount, unit) ==
    [name |-> name, original |-> original, amount |-> amount, unit |-> unit]

\* saved_recipes rows (the recipe store is read-only for this core).
savedRecipes ==
    << [id |-> 1, userId |-> 1, title |-> "Omelette", servings |-> Some(4),
        ingredientsJson |->
            << Ingredient(Some(Str_eggs), None, Some(3000), Some("piece")) >>],
       [id |-> 2, userId |-> 1, title |-> "Salad", servings |-> None,
        ingredientsJson |->
            << Ingredient(Some(Str_olive_oil), None, Some(2004), Some("tbsp")),
               Ingredient(None, Some(Str_oil), Some(1000), Some("TBSP")),
               Ingredient(Some(Str_salt), None, None, None),
               Ingredient(Some(Str_foil), None, Some(1000), None) >>],
       [id |-> 3, userId |-> 2, title |-> "Custard", servings |-> Some(2),
        ingredientsJson |->
            << Ingredient(Some(Str_eggs_padded), None, Some(1500), Some("Piece")),
               Ingredient(Some(Str_saffron), None, Some(1000), Some("cup")) >>],
       [id |-> 4, userId |-> 1, title |-> "Drizzle", servings |-> None,
        ingredientsJson |->
            << Ingredient(Some(Str_olive_oil), None, Some(1004), Some("tbsp")) >>],
       [id |-> 5, userId |-> 1, title |-> "Vinaigrette", servings |-> None,
        ingredientsJson |->
            << Ingredient(Some(Str_olive_oil), None, Some(1000), Some("tbsp")),
               Ingredient(Some(Str_oil), None, Some(500), Some("tbsp")) >>] >>

\* A recipe id that no row has.
MissingRecipeId == Len(savedRecipes) + 1

\* SelectRecipe without the userId condition.
SelectRecipeAnyOwner(userId, recipeId) ==
    IF \E i \in 1..Len(savedRecipes) : savedRecipes[i].id = recipeId
    THEN Some(savedRecipes[CHOOSE i \in 1..Len(savedRecipes) : savedRecipes[i].id = recipeId])
    ELSE None

\* select().from(savedRecipes).where(id = recipeId and userId = userId)
SelectRecipe(userId, recipeId) ==
    IF \E i \in 1..Len(savedRecipes) :
           savedRecipes[i].id = recipeId /\ savedRecipes[i].userId = userId
    THEN Some(savedRecipes[CHOOSE i \in 1..Len(savedRecipes) :
                  savedRecipes[i].id = recipeId /\ savedRecipes[i].userId = userId])
    ELSE None

\* ------------------------------------------------------------- matching

\* findPantryMatch over the rows getItems returned, in their order.
findPantryMatch(ingredientName, pantryItems) ==
    LET lower == NormalizeName(ingredientName)
        exact == { i \in 1..Len(pantryItems) : NormalizeName(pantryItems[i].name) = lower }
        partial == { i \in 1..Len(pantryItems) :
                       LET pantryName == NormalizeName(pantryItems[i].name)
                       IN WordRegexTest(pantryName, lower) \/ WordRegexTest(lower, pantryName) }
        first(S) == CHOOSE i \in S : \A j \in S : i <= j
    IN IF lower = << >> THEN None
       ELSE IF exact # {} THEN Some(pantryItems[first(exact)])
       ELSE IF partial # {} THEN Some(pantryItems[first(partial)])
       ELSE None

\* ------------------------------------------------------ preview (dry run)

\* a || b || c on optional strings: the empty string is falsy too.
Truthy(o) == IsSet(o) /\ Val(o) # << >>

IngredientNameOf(ingredient) ==
    IF Truthy(ingredient.name) THEN Val(ingredient.name)
    ELSE IF Truthy(ingredient.original) THEN Val(ingredient.original)
    ELSE Str_unknown_ingredient

\* servings || recipe.servings || 1
RequestedServings(servings, recipe) ==
    IF IsSet(servings) /\ Val(servings) # 0 THEN Val(servings)
    ELSE IF IsSet(recipe.servings) /\ Val(recipe.servings) # 0 THEN Val(recipe.servings)
    ELSE 1

\* ScaledAmount without the scale.
ScaledAmountUnscaled(amount, servings, recipe) == amount

\* ingredient.amount * scale, scale = requestedServings / recipe.servings or 1.
ScaledAmount(amount, servings, recipe) ==
    IF IsSet(recipe.servings) /\ Val(recipe.servings) > 0
    THEN (amount * RequestedServings(servings, recipe)) \div Val(recipe.servings)
    ELSE amount

\* PreviewNeedsReplenish without the isStaple condition.
PreviewNeedsReplenishAnyItem(pantryItem, newQuantity, originalQuantity) ==
    BelowThreshold(newQuantity, originalQuantity)

\* The replenish test of previewCook on a matched item and the unrounded
\* post-deduction quantity.
PreviewNeedsReplenish(pantryItem, newQuantity, originalQuantity) ==
    pantryItem.isStaple = 1 /\ BelowThreshold(newQuantity, originalQuantity)

\* What previewCook records for an ingredient it can deduct from pantryItem.
\* unrounded keeps, beside each deduction, the newQuantity the threshold test
\* reads (the code's local variable; the Deduction holds it rounded).
PreviewDeduction(ingredientName, pantryItem, deductAmount) ==
    LET oldQuantity == Val(pantryItem.quantity)
        newQuantity == Max(0, oldQuantity - deductAmount)
        originalQuantity == IF IsSet(pantryItem.originalQuantity)
                            THEN Val(pantryItem.originalQuantity)
                            ELSE oldQuantity
    IN [deductions |->
           << [pantryItemId |-> pantryItem.id,
               pantryItemName |-> pantryItem.name,
               ingredientName |-> ingredientName,
               amountDeducted |-> Round2(deductAmount),
               unit |-> Val(pantryItem.unit),
               oldQuantity |-> oldQuantity,
               newQuantity |-> Round2(newQuantity)] >>,
        unrounded |-> << newQuantity >>,
        skipped |-> << >>,
        replenishItems |->
           IF PreviewNeedsReplenish(pantryItem, newQuantity, originalQuantity)
           THEN << [name |-> pantryItem.name,
                    currentQuantity |-> Round2(newQuantity),
                    originalQuantity |-> originalQuantity,
                    unit |-> Val(pantryItem.unit)] >>
           ELSE << >>]

\* PreviewSkip that records nothing.
PreviewSkipDropped(ingredientName, reason) ==
    [deductions |-> << >>,
     unrounded |-> << >>,
     skipped |-> << >>,
     replenishItems |-> << >>]

PreviewSkip(ingredientName, reason) ==
    [deductions |-> << >>,
     unrounded |-> << >>,
     skipped |-> << [ingredientName |-> ingredientName, reason |-> reason] >>,
     replenishItems |-> << >>]

\* The deduction amount in the pantry's unit, or None when tryConvert gives null.
DeductAmount(scaledAmount, recipeUnit, pantryUnit) ==
    IF recipeUnit = "" \/ recipeUnit = pantryUnit THEN Some(scaledAmount)
    ELSE tryConvert(scaledAmount, recipeUnit, pantryUnit)

\* previewCook's loop body from the pantry lookup on (the ingredient has an amount).
PreviewMatched(ingredient, ingredientName, match, servings, recipe) ==
    IF ~IsSet(match) THEN PreviewSkip(ingredientName, << "Not found in pantry" >>)
    ELSE IF \/ ~IsSet(Val(match).quantity)
            \/ ~IsSet(Val(match).unit)
            \/ Val(Val(match).unit) = ""
    THEN PreviewSkip(ingredientName, << "Pantry item has no quantity/unit set" >>)
    ELSE LET recipeUnit == IF IsSet(ingredient.unit) THEN Val(ingredient.unit) ELSE ""
             pantryUnit == Val(Val(match).unit)
         IN Once(DeductAmount(ScaledAmount(Val(ingredient.amount), servings, recipe),
                              recipeUnit, pantryUnit),
                 LAMBDA converted :
                     IF ~IsSet(converted)
                     THEN PreviewSkip(ingredientName,
                                      << "Incompatible units", recipeUnit, pantryUnit >>)
                     ELSE PreviewDeduction(ingredientName, Val(match), Val(converted)))

\* PreviewIngredient that looks the ingredient up before it tests the amount.
PreviewIngredientLookupFirst(ingredient, pantryItems, servings, recipe) ==
    Once(findPantryMatch(IngredientNameOf(ingredient), pantryItems),
         LAMBDA match :
             IF ~IsSet(match)
             THEN PreviewSkip(IngredientNameOf(ingredient), << "Not found in pantry" >>)
             ELSE IF ~IsSet(ingredient.amount) \/ Val(ingredient.amount) = 0
             THEN PreviewSkip(IngredientNameOf(ingredient),
                              << "No amount specified (used but not tracked)" >>)
             ELSE PreviewMatched(ingredient, IngredientNameOf(ingredient), match,
                                 servings, recipe))

\* One pass of previewCook's loop body: what ingredient adds to the three lists.
PreviewIngredient(ingredient, pantryItems, servings, recipe) ==
    IF ~IsSet(ingredient.amount) \/ Val(ingredient.amount) = 0
    THEN PreviewSkip(IngredientNameOf(ingredient),
                     << "No amount specified (used but not tracked)" >>)
    ELSE Once(findPantryMatch(IngredientNameOf(ingredient), pantryItems),
              LAMBDA match :
                  PreviewMatched(ingredient, IngredientNameOf(ingredient), match,
                                 servings, recipe))

\* PreviewMerge that puts the later ingredients' entries first.
PreviewMergeReversed(one, rest) ==
    [deductions |-> rest.deductions \o one.deductions,
     unrounded |-> rest.unrounded \o one.unrounded,
     skipped |-> rest.skipped \o one.skipped,
     replenishItems |-> rest.replenishItems \o one.replenishItems]

PreviewMerge(one, rest) ==
    [deductions |-> one.deductions \o rest.deductions,
     unrounded |-> one.unrounded \o rest.unrounded,
     skipped |-> one.skipped \o rest.skipped,
     replenishItems |-> one.replenishItems \o rest.replenishItems]

\* previewCook's loop over the recipe's ingredients, in their order.
RECURSIVE PreviewLoop(_, _, _, _)
PreviewLoop(ingredients, pantryItems, servings, recipe) ==
    IF ingredients = << >>
    THEN [deductions |-> << >>, unrounded |-> << >>, skipped |-> << >>,
          replenishItems |-> << >>]
    ELSE Once(PreviewIngredient(Head(ingredients), pantryItems, servings, recipe),
              LAMBDA one :
                  Once(PreviewLoop(Tail(ingredients), pantryItems, servings, recipe),
                       LAMBDA rest : PreviewMerge(one, rest)))

\* ----------------------------------------------------------------- state

VARIABLES
    pantry,            \* pantry_items: id -> row
    groceryLists,      \* grocery_lists rows, in insertion order (id = position)
    groceryListItems,  \* grocery_list_items rows, in insertion order
    proc,              \* per request: the running service call and its locals
    ops,               \* service calls started so far
    eval               \* a pure function under evaluation: its arguments and result

vars == << pantry, groceryLists, groceryListItems, proc, ops, eval >>

\* The stores and the requests, which a pure function leaves alone.
storeVars == << pantry, groceryLists, groceryListItems, proc, ops >>

\* No pure function is under evaluation.
NoEval == [fn |-> "none"]

Procs == { 1, 2 }

PantryRow(id, userId, name, quantity, unit, isStaple, originalQuantity) ==
    [id |-> id, userId |-> userId, name |-> name, quantity |-> quantity, unit |-> unit,
     isStaple |-> isStaple, originalQuantity |-> originalQuantity]

\* Rows present at start: a stocked staple, a staple row that predates the
\* original_quantity column (so it is NULL), and another user's staple.
InitialPantry ==
    << PantryRow(1, 1, Str_Eggs, Some(12000), Some("piece"), 1, Some(12000)),
       PantryRow(2, 1, Str_olive_oil, Some(10000), Some("tbsp"), 1, None),
       PantryRow(3, 2, Str_eggs, Some(2000), Some("piece"), 1, Some(2000)) >>

IdleProc ==
    [op |-> "none", pc |-> "idle", seq |-> 0, returned |-> "pending",
     userId |-> 0, recipeId |-> 0, servings |-> None, itemId |-> 0, amount |-> 0,
     data |-> None, preview |-> None, idx |-> 0, item |-> None,
     results |-> << >>, executedDeductions |-> << >>, replenishItems |-> << >>,
     list |-> None, created |-> FALSE, existingItems |-> << >>, newItems |-> << >>,
     addItemsCalls |-> 0, row |-> None]

InitStores ==
    /\ pantry = [i \in 1..Len(InitialPantry) |-> InitialPantry[i]]
    /\ groceryLists = << [id |-> 1, userId |-> 2, name |-> Str_Auto_Replenish] >>
    /\ groceryListItems =
           << [listId |-> 1, name |-> Str_eggs_padded, amount |-> None, unit |-> None,
               sourceRecipeTitle |-> None, isCustom |-> 1] >>
    /\ proc = [p \in Procs |-> IdleProc]
    /\ ops = 0

Init == InitStores /\ eval = NoEval

\* ------------------------------------------------------- inventory store

\* getItem without the userId condition.
getItemAnyOwner(id, userId) ==
    IF id \in DOMAIN pantry THEN Some(pantry[id]) ELSE None

\* getItem(id, userId): the row, or None for null.
getItem(id, userId) ==
    IF id \in DOMAIN pantry /\ pantry[id].userId = userId THEN Some(pantry[id]) ELSE None

\* getItems(userId): ORDER BY category, name. Every row of the model has a NULL
\* category; rows of equal name come in an order SQL leaves open.
GetItemsOrders(userId) ==
    LET ids == { i \in DOMAIN pantry : pantry[i].userId = userId }
        n == Cardinality(ids)
    IN { [k \in 1..n |-> pantry[f[k]]] :
           f \in { g \in [1..n -> ids] :
                     /\ \A a, b \in 1..n : a # b => g[a] # g[b]
                     /\ \A k \in 1..(n - 1) : StrLeq(pantry[g[k]].name, pantry[g[k + 1]].name) } }

\* DeductResult without the floor at zero.
DeductResultNoClamp(item, amount) ==
    LET oldQuantity == IF IsSet(item.quantity) THEN Val(item.quantity) ELSE 0
    IN [item |-> item,
        oldQuantity |-> oldQuantity,
        newQuantity |-> oldQuantity - amount,
        originalQuantity |-> IF IsSet(item.originalQuantity)
                             THEN Val(item.originalQuantity) ELSE oldQuantity]

\* What deductQuantity computes from the row it read and returns.
DeductResult(item, amount) ==
    LET oldQuantity == IF IsSet(item.quantity) THEN Val(item.quantity) ELSE 0
    IN [item |-> item,
        oldQuantity |-> oldQuantity,
        newQuantity |-> Max(0, oldQuantity - amount),
        originalQuantity |-> IF IsSet(item.originalQuantity)
                             THEN Val(item.originalQuantity) ELSE oldQuantity]

\* DeductUpdate that snapshots originalQuantity at every deduction.
DeductUpdateAlwaysSnapshot(current, item, amount) ==
    LET r == DeductResult(item, amount)
    IN [current EXCEPT
           !.quantity = Some(DbDecimal(r.newQuantity)),
           !.originalQuantity = Some(DbDecimal(r.oldQuantity))]

\* The row deductQuantity's UPDATE leaves, given the row it finds.
DeductUpdate(current, item, amount) ==
    LET r == DeductResult(item, amount)
    IN [current EXCEPT
           !.quantity = Some(DbDecimal(r.newQuantity)),
           !.originalQuantity = IF IsSet(item.originalQuantity) THEN @
                                ELSE Some(DbDecimal(r.oldQuantity))]

\* UpdateItemUpdate that sets originalQuantity whenever a quantity is given.
UpdateItemUpdateAnyQuantity(current, existing, data) ==
    [current EXCEPT
        !.quantity = IF IsSet(data.quantity) THEN Some(DbDecimal(Val(data.quantity))) ELSE @,
        !.originalQuantity = IF IsSet(data.quantity)
                             THEN Some(DbDecimal(Val(data.quantity))) ELSE @,
        !.isStaple = IF IsSet(data.isStaple)
                     THEN (IF Val(data.isStaple) # 0 THEN 1 ELSE 0) ELSE @]

\* The row updateItem's UPDATE leaves, given the row it finds and the one
\* it read before (existing).
UpdateItemUpdate(current, existing, data) ==
    LET oldQty == IF IsSet(existing.quantity) THEN Val(existing.quantity) ELSE 0
        restock == IsSet(data.quantity) /\ Val(data.quantity) > oldQty
    IN [current EXCEPT
           !.quantity = IF IsSet(data.quantity) THEN Some(DbDecimal(Val(data.quantity))) ELSE @,
           !.originalQuantity = IF restock THEN Some(DbDecimal(Val(data.quantity))) ELSE @,
           !.isStaple = IF IsSet(data.isStaple)
                        THEN (IF Val(data.isStaple) # 0 THEN 1 ELSE 0) ELSE @]

\* The row addItem inserts.
AddItemRow(id, userId, data) ==
    PantryRow(id, userId, data.name,
              IF IsSet(data.quantity) THEN Some(DbDecimal(Val(data.quantity))) ELSE None,
              data.unit,
              IF IsSet(data.isStaple) THEN (IF Val(data.isStaple) # 0 THEN 1 ELSE 0)
              ELSE (IF isDefaultStaple(data.name) THEN 1 ELSE 0),
              IF IsSet(data.quantity) THEN Some(DbDecimal(Val(data.quantity))) ELSE None)

\* ---------------------------------------------------- shopping list store

\* getOrCreateAutoReplenishList, its SELECT: the user's lists of that name.
AutoReplenishLists(userId) ==
    { i \in 1..Len(groceryLists) :
        groceryLists[i].userId = userId /\ groceryLists[i].name = Str_Auto_Replenish }

\* getListItems(listId): the list's rows (only their names are used).
getListItems(listId) ==
    SelectSeq(groceryListItems, LAMBDA r : r.listId = listId)

\* The rows addItems inserts.
AddItemsRows(listId, items) ==
    [k \in 1..Len(items) |->
        [listId |-> listId, name |-> items[k].name,
         amount |-> Some(items[k].amount),
         unit |-> IF items[k].unit = "" THEN None ELSE Some(items[k].unit),
         sourceRecipeTitle |-> IF items[k].sourceRecipeTitle = "" THEN None
                               ELSE Some(items[k].sourceRecipeTitle),
         isCustom |-> 0]]

\* ------------------------------------------------- confirmCook, its parts

\* ExecutedDeduction that keeps the preview's quantities.
ExecutedDeductionFromPreview(deduction, result) == deduction

\* The entry confirmCook reports for a deduction the store executed.
ExecutedDeduction(deduction, result) ==
    [deduction EXCEPT !.oldQuantity = result.oldQuantity,
                      !.newQuantity = result.newQuantity]

\* Re-check replenish after the actual deduction.
ConfirmNeedsReplenish(result) ==
    result.item.isStaple = 1 /\ BelowThreshold(result.newQuantity, result.originalQuantity)

ConfirmReplenishItem(result) ==
    [name |-> result.item.name,
     currentQuantity |-> Round2(result.newQuantity),
     originalQuantity |-> result.originalQuantity,
     unit |-> IF IsSet(result.item.unit) THEN Val(result.item.unit) ELSE ""]

\* existingNames: the normalized names of the rows getListItems returned.
ExistingNames(existingItems) ==
    { NormalizeName(existingItems[k].name) : k \in 1..Len(existingItems) }

\* newItems: the candidates whose normalized name is not among existingNames.
NewItems(replenishItems, existingItems, title) ==
    LET keep == SelectSeq(replenishItems,
                          LAMBDA item : NormalizeName(item.name) \notin ExistingNames(existingItems))
    IN [k \in 1..Len(keep) |->
           [name |-> keep[k].name,
            amount |-> keep[k].originalQuantity,
            unit |-> keep[k].unit,
            sourceRecipeTitle |-> title]]

\* --------------------------------------------------------------- actions

\* Inputs the requests draw from: the calls a request may make.
ItemIdArgs == 1..(Len(InitialPantry) + 1)

\* (userId, recipeId, servings): own recipes as saved and rescaled, another
\* user's recipe, a recipe that does not exist.
CookCalls ==
    { << 1, 1, None >>, << 1, 1, Some(8) >>, << 1, 2, None >>,
      << 2, 3, Some(8) >>,
      << 2, 1, None >>, << 1, MissingRecipeId, None >> }

\* (id, userId, amount): within stock, beyond stock, not the owner, no such row.
DeductCalls ==
    { << 1, 1, 3000 >>, << 1, 1, 15000 >>,
      << 1, 2, 3000 >>, << Len(InitialPantry) + 1, 1, 3000 >> }

\* (id, userId, data): an edit to 8 (down from 12, up from less), a restock to
\* 20, unflag as staple, not the owner.
UpdateCalls ==
    { << 1, 1, [quantity |-> Some(8000), isStaple |-> None] >>,
      << 1, 1, [quantity |-> Some(20000), isStaple |-> None] >>,
      << 1, 1, [quantity |-> None, isStaple |-> Some(0)] >>,
      << 3, 1, [quantity |-> Some(5000), isStaple |-> None] >> }

\* (userId, data)
AddCalls ==
    { << 1, [name |-> Str_oil, quantity |-> Some(4000), unit |-> Some("tbsp"),
             isStaple |-> None] >>,
      << 2, [name |-> Str_saffron, quantity |-> None, unit |-> None,
             isStaple |-> Some(1)] >> }

Begin(p, op) ==
    [IdleProc EXCEPT !.op = op, !.seq = ops + 1]

\* A new call takes the idle request whose last call is the oldest.
Idle(p) ==
    /\ proc[p].pc = "idle"
    /\ \A q \in Procs \ { p } :
           proc[q].pc = "idle" =>
               \/ proc[p].seq < proc[q].seq
               \/ proc[p].seq = proc[q].seq /\ p < q
    /\ ops < MaxOps

\* A call returns: the request is idle again and keeps what the call returned.
Return(pr, how) == [pr EXCEPT !.pc = "idle", !.returned = how]

\* previewCook / confirmCook: the call and its recipe SELECT.
StartCook(p, op, userId, recipeId, servings) ==
    LET pr == [Begin(p, op) EXCEPT !.userId = userId, !.recipeId = recipeId,
                                    !.servings = servings]
    IN /\ Idle(p)
       /\ ops' = ops + 1
       /\ proc' = [proc EXCEPT ![p] =
              IF IsSet(SelectRecipe(userId, recipeId))
              THEN [pr EXCEPT !.pc = "preview_items"]
              ELSE Return(pr, "null")]
       /\ UNCHANGED << pantry, groceryLists, groceryListItems, eval >>

StartPreviewCook(p) ==
    \E call \in CookCalls : StartCook(p, "previewCook", call[1], call[2], call[3])

StartConfirmCook(p) ==
    \E call \in CookCalls : StartCook(p, "confirmCook", call[1], call[2], call[3])

\* AfterDeduction that fetches the list whether or not there is a candidate.
AfterDeductionAlwaysList(pr) ==
    IF pr.idx < Len(Val(pr.preview).deductions)
    THEN [pr EXCEPT !.pc = "deduct_read", !.idx = pr.idx + 1, !.item = None]
    ELSE [pr EXCEPT !.pc = "list_select", !.item = None]

\* confirmCook after a deduction (or none): the next one, else the
\* auto-replenish block, else return.
AfterDeduction(pr) ==
    IF pr.idx < Len(Val(pr.preview).deductions)
    THEN [pr EXCEPT !.pc = "deduct_read", !.idx = pr.idx + 1, !.item = None]
    ELSE IF Len(pr.replenishItems) > 0
    THEN [pr EXCEPT !.pc = "list_select", !.item = None]
    ELSE Return([pr EXCEPT !.item = None], "value")

\* The CookPreview previewCook returns for a recipe it found.
PreviewCookValue(recipe, pantryItems, servings) ==
    LET lists == PreviewLoop(recipe.ingredientsJson, pantryItems, servings, recipe)
    IN [recipe |-> [id |-> recipe.id, title |-> recipe.title, servings |-> recipe.servings],
        requestedServings |-> RequestedServings(servings, recipe),
        deductions |-> lists.deductions,
        unrounded |-> lists.unrounded,
        skipped |-> lists.skipped,
        replenishItems |-> lists.replenishItems]

\* PreviewGetItems that also writes each deduction's newQuantity to its row.
PreviewGetItemsWriting(p) ==
    /\ proc[p].pc = "preview_items"
    /\ \E pantryItems \in GetItemsOrders(proc[p].userId) :
       \E preview \in { PreviewCookValue(Val(SelectRecipe(proc[p].userId, proc[p].recipeId)),
                                         pantryItems, proc[p].servings) } :
          LET pr == [proc[p] EXCEPT !.preview = Some(preview)]
              touched(id) == { k \in 1..Len(preview.deductions) :
                                 preview.deductions[k].pantryItemId = id }
          IN /\ proc' = [proc EXCEPT ![p] =
                    IF pr.op = "previewCook" THEN Return(pr, "value")
                    ELSE AfterDeduction(pr)]
             /\ pantry' = [id \in DOMAIN pantry |->
                    IF touched(id) = {} THEN pantry[id]
                    ELSE [pantry[id] EXCEPT !.quantity =
                             Some(preview.deductions[CHOOSE k \in touched(id) : TRUE].newQuantity)]]
    /\ UNCHANGED << groceryLists, groceryListItems, ops, eval >>

\* previewCook from getItems to its return; confirmCook goes on to deduct.
PreviewGetItems(p) ==
    /\ proc[p].pc = "preview_items"
    /\ \E pantryItems \in GetItemsOrders(proc[p].userId) :
       \E preview \in { PreviewCookValue(Val(SelectRecipe(proc[p].userId, proc[p].recipeId)),
                                         pantryItems, proc[p].servings) } :
          LET pr == [proc[p] EXCEPT !.preview = Some(preview)]
          IN proc' = [proc EXCEPT ![p] =
                 IF pr.op = "previewCook" THEN Return(pr, "value")
                 ELSE AfterDeduction(pr)]
    /\ UNCHANGED << pantry, groceryLists, groceryListItems, ops, eval >>

\* deductQuantity called on its own: the call and its getItem.
StartDeductQuantity(p) ==
    \E << id, userId, amount >> \in DeductCalls :
        LET pr == [Begin(p, "deductQuantity") EXCEPT !.userId = userId, !.itemId = id,
                                                      !.amount = amount,
                                                      !.item = getItem(id, userId)]
        IN /\ Idle(p)
           /\ ops' = ops + 1
           /\ proc' = [proc EXCEPT ![p] =
                  IF IsSet(pr.item) THEN [pr EXCEPT !.pc = "deduct_write"]
                  ELSE Return(pr, "null")]
           /\ UNCHANGED << pantry, groceryLists, groceryListItems, eval >>

\* confirmCook's call of deductQuantity for deduction idx: its getItem.
DeductRead(p) ==
    /\ proc[p].pc = "deduct_read"
    /\ LET deduction == Val(proc[p].preview).deductions[proc[p].idx]
           pr == [proc[p] EXCEPT !.itemId = deduction.pantryItemId,
                                 !.amount = deduction.amountDeducted,
                                 !.item = getItem(deduction.pantryItemId, proc[p].userId)]
       IN proc' = [proc EXCEPT ![p] =
              IF IsSet(pr.item) THEN [pr EXCEPT !.pc = "deduct_write"]
              ELSE AfterDeduction([pr EXCEPT !.results = Append(@, None)])]
    /\ UNCHANGED << pantry, groceryLists, groceryListItems, ops, eval >>

\* deductQuantity's UPDATE and return, and what confirmCook does with the result.
DeductWrite(p) ==
    /\ proc[p].pc = "deduct_write"
    /\ LET item == Val(proc[p].item)
           id == proc[p].itemId
           result == DeductResult(item, proc[p].amount)
           pr == [proc[p] EXCEPT !.results = Append(@, Some(result))]
       IN /\ pantry' = IF id \in DOMAIN pantry /\ pantry[id].userId = proc[p].userId
                       THEN [pantry EXCEPT ![id] = DeductUpdate(@, item, proc[p].amount)]
                       ELSE pantry
          /\ proc' = [proc EXCEPT ![p] =
                 IF pr.op = "deductQuantity" THEN Return(pr, "value")
                 ELSE AfterDeduction(
                        [pr EXCEPT
                           !.executedDeductions =
                               Append(@, ExecutedDeduction(
                                             Val(pr.preview).deductions[pr.idx], result)),
                           !.replenishItems =
                               IF ConfirmNeedsReplenish(result)
                               THEN Append(@, ConfirmReplenishItem(result)) ELSE @])]
    /\ UNCHANGED << groceryLists, groceryListItems, ops, eval >>

\* ListSelect that never finds a list.
ListSelectAlwaysInsert(p) ==
    /\ proc[p].pc = "list_select"
    /\ proc' = [proc EXCEPT ![p] = [@ EXCEPT !.pc = "list_insert"]]
    /\ UNCHANGED << pantry, groceryLists, groceryListItems, ops, eval >>

\* getOrCreateAutoReplenishList: its SELECT; an existing list is returned.
ListSelect(p) ==
    /\ proc[p].pc = "list_select"
    /\ LET found == AutoReplenishLists(proc[p].userId)
       IN proc' = [proc EXCEPT ![p] =
              IF found # {}
              THEN [@ EXCEPT !.pc = "list_items",
                             !.list = Some(groceryLists[CHOOSE i \in found :
                                                            \A j \in found : i <= j])]
              ELSE [@ EXCEPT !.pc = "list_insert"]]
    /\ UNCHANGED << pantry, groceryLists, groceryListItems, ops, eval >>

\* getOrCreateAutoReplenishList: no list was found, so one is inserted.
ListInsert(p) ==
    /\ proc[p].pc = "list_insert"
    /\ LET list == [id |-> Len(groceryLists) + 1, userId |-> proc[p].userId,
                    name |-> Str_Auto_Replenish]
       IN /\ groceryLists' = Append(groceryLists, list)
          /\ proc' = [proc EXCEPT ![p] =
                 [@ EXCEPT !.pc = "list_items", !.list = Some(list), !.created = TRUE]]
    /\ UNCHANGED << pantry, groceryListItems, ops, eval >>

\* confirmCook: getListItems and the filter; returns when nothing is new.
ListItems(p) ==
    /\ proc[p].pc = "list_items"
    /\ LET existingItems == getListItems(Val(proc[p].list).id)
           newItems == NewItems(proc[p].replenishItems, existingItems,
                                Val(proc[p].preview).recipe.title)
           pr == [proc[p] EXCEPT !.existingItems = existingItems, !.newItems = newItems]
       IN proc' = [proc EXCEPT ![p] =
              IF Len(newItems) > 0 THEN [pr EXCEPT !.pc = "add_items"]
              ELSE Return(pr, "value")]
    /\ UNCHANGED << pantry, groceryLists, groceryListItems, ops, eval >>

\* confirmCook: addItems(list.id, newItems), then return.
AddItems(p) ==
    /\ proc[p].pc = "add_items"
    /\ groceryListItems' =
           groceryListItems \o AddItemsRows(Val(proc[p].list).id, proc[p].newItems)
    /\ proc' = [proc EXCEPT ![p] = Return([@ EXCEPT !.addItemsCalls = @ + 1], "value")]
    /\ UNCHANGED << pantry, groceryLists, ops, eval >>

\* updateItem: the call and its ownership getItem.
StartUpdateItem(p) ==
    \E << id, userId, data >> \in UpdateCalls :
        LET pr == [Begin(p, "updateItem") EXCEPT !.userId = userId, !.itemId = id,
                                                  !.data = Some(data),
                                                  !.item = getItem(id, userId)]
        IN /\ Idle(p)
           /\ ops' = ops + 1
           /\ proc' = [proc EXCEPT ![p] =
                  IF IsSet(pr.item) THEN [pr EXCEPT !.pc = "update_write"]
                  ELSE Return(pr, "null")]
           /\ UNCHANGED << pantry, groceryLists, groceryListItems, eval >>

\* updateItem: its UPDATE ... RETURNING.
UpdateWrite(p) ==
    /\ proc[p].pc = "update_write"
    /\ LET id == proc[p].itemId
           hit == id \in DOMAIN pantry /\ pantry[id].userId = proc[p].userId
           row == UpdateItemUpdate(pantry[id], Val(proc[p].item), Val(proc[p].data))
       IN /\ pantry' = IF hit THEN [pantry EXCEPT ![id] = row] ELSE pantry
          /\ proc' = [proc EXCEPT ![p] =
                 Return([@ EXCEPT !.row = IF hit THEN Some(row) ELSE None], "value")]
    /\ UNCHANGED << groceryLists, groceryListItems, ops, eval >>

\* addItem: one INSERT ... RETURNING.
AddItem(p) ==
    \E << userId, data >> \in AddCalls :
        LET id == Cardinality(DOMAIN pantry) + 1
            row == AddItemRow(id, userId, data)
        IN /\ Idle(p)
           /\ id \in ItemIdArgs
           /\ ops' = ops + 1
           /\ pantry' = [i \in DOMAIN pantry \cup { id } |->
                            IF i = id THEN row ELSE pantry[i]]
           /\ proc' = [proc EXCEPT ![p] =
                  Return([Begin(p, "addItem") EXCEPT !.userId = userId, !.itemId = id,
                                                     !.data = Some(data),
                                                     !.row = Some(row)], "value")]
           /\ UNCHANGED << groceryLists, groceryListItems, eval >>

Step(p) ==
    \/ StartPreviewCook(p)
    \/ StartConfirmCook(p)
    \/ PreviewGetItems(p)
    \/ StartDeductQuantity(p)
    \/ DeductRead(p)
    \/ DeductWrite(p)
    \/ ListSelect(p)
    \/ ListInsert(p)
    \/ ListItems(p)
    \/ AddItems(p)
    \/ StartUpdateItem(p)
    \/ UpdateWrite(p)
    \/ AddItem(p)

\* Requests interleave at every await.
Next == \E p \in Procs : Step(p)

Spec == Init /\ [][Next]_vars

\* One request at a time: a call runs to its return before the next starts.
AllIdle == \A q \in Procs : proc[q].pc = "idle"

NextSeq ==
    \E p \in Procs :
        \/ AllIdle /\ StartPreviewCook(p)
        \/ AllIdle /\ StartConfirmCook(p)
        \/ AllIdle /\ StartDeductQuantity(p)
        \/ AllIdle /\ StartUpdateItem(p)
        \/ AllIdle /\ AddItem(p)
        \/ PreviewGetItems(p)
        \/ DeductRead(p)
        \/ DeductWrite(p)
        \/ ListSelect(p)
        \/ ListInsert(p)
        \/ ListItems(p)
        \/ AddItems(p)
        \/ UpdateWrite(p)

SpecSeq == Init /\ [][NextSeq]_vars

\* -------------------------------------------------- mutations and owners

\* (id, userId): the owner, not the owner (twice), no such row.
DeleteCalls ==
    { << 1, 1 >>, << 1, 2 >>, << 3, 1 >>, << Len(InitialPantry) + 1, 1 >> }

\* deleteItem: the call and its ownership getItem.
StartDeleteItem(p) ==
    \E << id, userId >> \in DeleteCalls :
        LET pr == [Begin(p, "deleteItem") EXCEPT !.userId = userId, !.itemId = id,
                                                  !.item = getItem(id, userId)]
        IN /\ Idle(p)
           /\ ops' = ops + 1
           /\ proc' = [proc EXCEPT ![p] =
                  IF IsSet(pr.item) THEN [pr EXCEPT !.pc = "delete_write"]
                  ELSE Return(pr, "null")]
           /\ UNCHANGED << pantry, groceryLists, groceryListItems, eval >>

\* deleteItem: its DELETE; the row read before is returned.
DeleteWrite(p) ==
    /\ proc[p].pc = "delete_write"
    /\ LET id == proc[p].itemId
           hit == id \in DOMAIN pantry /\ pantry[id].userId = proc[p].userId
       IN /\ pantry' = IF hit THEN [i \in DOMAIN pantry \ { id } |-> pantry[i]] ELSE pantry
          /\ proc' = [proc EXCEPT ![p] =
                 Return([proc[p] EXCEPT !.row = proc[p].item], "value")]
    /\ UNCHANGED << groceryLists, groceryListItems, ops, eval >>

\* The calls that change pantry rows, interleaved at every await.
NextOwner ==
    \E p \in Procs :
        \/ StartDeductQuantity(p)
        \/ StartUpdateItem(p)
        \/ StartDeleteItem(p)
        \/ StartConfirmCook(p)
        \/ PreviewGetItems(p)
        \/ DeductRead(p)
        \/ DeductWrite(p)
        \/ UpdateWrite(p)
        \/ DeleteWrite(p)
        \/ ListSelect(p)
        \/ ListInsert(p)
        \/ ListItems(p)
        \/ AddItems(p)

SpecOwner == Init /\ [][NextOwner]_vars

\* ------------------------------------------ cook calls, one after another

\* (userId, recipeId, servings) of the cook calls made with nothing else
\* running: every recipe of user 1, one at a serving count that flags nothing,
\* user 2's recipe as saved and rescaled, and a recipe the caller does not own.
CookAloneCalls ==
    { << 1, 1, None >>, << 1, 1, Some(1) >>, << 1, 2, None >>, << 1, 4, None >>,
      << 1, 5, None >>, << 2, 3, None >>, << 2, 3, Some(8) >>, << 2, 1, None >> }

StartPreviewCookAlone(p) ==
    \E call \in CookAloneCalls :
        AllIdle /\ StartCook(p, "previewCook", call[1], call[2], call[3])

StartConfirmCookAlone(p) ==
    \E call \in CookAloneCalls :
        AllIdle /\ StartCook(p, "confirmCook", call[1], call[2], call[3])

NextCook ==
    \E p \in Procs :
        \/ StartPreviewCookAlone(p)
        \/ StartConfirmCookAlone(p)
        \/ PreviewGetItems(p)
        \/ DeductRead(p)
        \/ DeductWrite(p)
        \/ ListSelect(p)
        \/ ListInsert(p)
        \/ ListItems(p)
        \/ AddItems(p)

SpecCook == Init /\ [][NextCook]_vars

\* ------------------------------------------- previewCook as a function

\* previewCook of one recipe on the initial pantry, over the servings argument
\* (absent, zero, below and above the recipe's count) and the recipe's own
\* serving count (NULL, zero, negative, positive).
ServingsArgs == { None, Some(0), Some(1), Some(2), Some(3), Some(6), Some(8), Some(16) }

RecipeServings == { None, Some(0), Some(0 - 2), Some(2), Some(4) }

PreviewCookInputs ==
    { [fn |-> "previewCook", recipe |-> [savedRecipes[i] EXCEPT !.servings = own],
       servings |-> servings, done |-> FALSE, result |-> None] :
          i \in 1..Len(savedRecipes), own \in RecipeServings, servings \in ServingsArgs }

InitPreviewCook == InitStores /\ eval \in PreviewCookInputs

\* previewCook from its getItems on, for the recipe it selected.
EvalPreviewCook ==
    /\ eval.fn = "previewCook"
    /\ ~eval.done
    /\ \E pantryItems \in GetItemsOrders(eval.recipe.userId) :
       \E preview \in { PreviewCookValue(eval.recipe, pantryItems, eval.servings) } :
           eval' = [eval EXCEPT !.done = TRUE, !.result = Some(preview)]
    /\ UNCHANGED storeVars

SpecPreviewCook == InitPreviewCook /\ [][EvalPreviewCook]_vars

\* --------------------------------------------------- classifyIngredients

\* pantryNames: the inventory names, lower-cased and trimmed, in order.
PantryNames(pantryItems) ==
    [k \in 1..Len(pantryItems) |-> NormalizeName(pantryItems[k].name)]

\* (ingredient.name || ingredient.original || "").toLowerCase().trim()
ComparisonText(ingredient) ==
    NormalizeName(IF Truthy(ingredient.name) THEN Val(ingredient.name)
                  ELSE IF Truthy(ingredient.original) THEN Val(ingredient.original)
                  ELSE << >>)

\* pantryItems.find((p) => p.name.toLowerCase().trim() === pantryName)!.name
FindDisplayName(pantryItems, pantryName) ==
    pantryItems[CHOOSE i \in 1..Len(pantryItems) :
                    /\ NormalizeName(pantryItems[i].name) = pantryName
                    /\ \A j \in 1..(i - 1) : NormalizeName(pantryItems[j].name) # pantryName].name

\* The loop over pantryNames from position k on: an exact match breaks out of
\* it, every partial match assigns partialMatch.
RECURSIVE ClassifyScan(_, _, _, _)
ClassifyScan(ingredientName, pantryItems, k, partialMatch) ==
    IF k > Len(pantryItems)
    THEN [exactMatch |-> FALSE, partialMatch |-> partialMatch]
    ELSE IF ingredientName = PantryNames(pantryItems)[k]
    THEN [exactMatch |-> TRUE, partialMatch |-> partialMatch]
    ELSE IF \/ WordRegexTest(PantryNames(pantryItems)[k], ingredientName)
            \/ WordRegexTest(ingredientName, PantryNames(pantryItems)[k])
    THEN ClassifyScan(ingredientName, pantryItems, k + 1,
                      Some(FindDisplayName(pantryItems, PantryNames(pantryItems)[k])))
    ELSE ClassifyScan(ingredientName, pantryItems, k + 1, partialMatch)

\* ClassifyOne with the partial match tested before the exact one.
ClassifyOnePartialFirst(ingredient, pantryItems) ==
    LET scan == ClassifyScan(ComparisonText(ingredient), pantryItems, 1, None)
    IN IF ComparisonText(ingredient) = << >> THEN [class |-> "missing", pantryItemName |-> None]
       ELSE IF Truthy(scan.partialMatch)
       THEN [class |-> "partial", pantryItemName |-> scan.partialMatch]
       ELSE IF scan.exactMatch THEN [class |-> "matched", pantryItemName |-> None]
       ELSE [class |-> "missing", pantryItemName |-> None]

\* ClassifyOne that puts an ingredient without comparison text in matched.
ClassifyOneEmptyMatched(ingredient, pantryItems) ==
    LET scan == ClassifyScan(ComparisonText(ingredient), pantryItems, 1, None)
    IN IF ComparisonText(ingredient) = << >> THEN [class |-> "matched", pantryItemName |-> None]
       ELSE IF scan.exactMatch THEN [class |-> "matched", pantryItemName |-> None]
       ELSE IF Truthy(scan.partialMatch)
       THEN [class |-> "partial", pantryItemName |-> scan.partialMatch]
       ELSE [class |-> "missing", pantryItemName |-> None]

\* One pass of the loop over recipeIngredients: where the ingredient is pushed.
ClassifyOne(ingredient, pantryItems) ==
    LET scan == ClassifyScan(ComparisonText(ingredient), pantryItems, 1, None)
    IN IF ComparisonText(ingredient) = << >> THEN [class |-> "missing", pantryItemName |-> None]
       ELSE IF scan.exactMatch THEN [class |-> "matched", pantryItemName |-> None]
       ELSE IF Truthy(scan.partialMatch)
       THEN [class |-> "partial", pantryItemName |-> scan.partialMatch]
       ELSE [class |-> "missing", pantryItemName |-> None]

\* classifyIngredients: the three lists, each in the order of the input.
classifyIngredients(recipeIngredients, pantryItems) ==
    LET n == Len(recipeIngredients)
        Of(class) == SelectSeq([i \in 1..n |-> i],
                               LAMBDA i : ClassifyOne(recipeIngredients[i], pantryItems).class
                                              = class)
    IN [missing |-> [k \in 1..Len(Of("missing")) |-> recipeIngredients[Of("missing")[k]]],
        partial |-> [k \in 1..Len(Of("partial")) |->
                        [ingredient |-> recipeIngredients[Of("partial")[k]],
                         pantryItemName |->
                             Val(ClassifyOne(recipeIngredients[Of("partial")[k]],
                                             pantryItems).pantryItemName)]],
        matched |-> [k \in 1..Len(Of("matched")) |-> recipeIngredients[Of("matched")[k]]]]

\* ------------------------------------------- matching, as a function

\* Inventory rows a matching call sees.
MaxInventory == 2

\* Recipe ingredients of the matching calls: a name of two words, a name
\* given only as original, a name that contains an inventory name inside a
\* word, a capitalised and a padded name, a blank name, no name at all.
MatchIngredients ==
    { Ingredient(Some(Str_olive_oil), None, Some(1000), None),
      Ingredient(None, Some(Str_oil), Some(1000), None),
      Ingredient(Some(Str_foil), None, Some(1000), None),
      Ingredient(Some(Str_Eggs), None, Some(1000), None),
      Ingredient(Some(Str_eggs_padded), Some(Str_oil), Some(1000), None),
      Ingredient(Some(<< " " >>), Some(Str_oil), Some(1000), None),
      Ingredient(None, None, Some(1000), None) }

MatchIngredientLists ==
    UNION { [1..n -> MatchIngredients] : n \in 0..2 }
    \cup { << Ingredient(Some(Str_olive_oil), None, Some(1000), None),
              Ingredient(Some(Str_foil), None, Some(1000), None),
              Ingredient(Some(Str_Eggs), None, Some(1000), None),
              Ingredient(None, None, Some(1000), None) >> }

InventoryNames == { Str_oil, Str_olive, Str_olive_oil, Str_Eggs, Str_eggs }

\* Every inventory of up to MaxInventory rows, in every order.
Inventories ==
    { [k \in 1..Len(names) |->
          PantryRow(k, 1, names[k], Some(5000), Some("piece"), 0, None)] :
      names \in UNION { [1..n -> InventoryNames] : n \in 0..MaxInventory } }

MatchRecipe(ingredients) ==
    [id |-> 1, userId |-> 1, title |-> "Salad", servings |-> None,
     ingredientsJson |-> ingredients]

\* classifyIngredients sees the inventory in the order its caller passes;
\* previewCook reads it from the store.
InitMatching ==
    /\ \E pantryItems \in Inventories, ingredients \in MatchIngredientLists :
           /\ pantry = pantryItems
           /\ eval \in { [fn |-> "classifyIngredients", recipeIngredients |-> ingredients,
                          pantryItems |-> pantryItems, done |-> FALSE, result |-> None],
                         [fn |-> "previewCook", recipe |-> MatchRecipe(ingredients),
                          servings |-> None, done |-> FALSE, result |-> None] }
    /\ groceryLists = << >>
    /\ groceryListItems = << >>
    /\ proc = [p \in Procs |-> IdleProc]
    /\ ops = 0

EvalClassifyIngredients ==
    /\ eval.fn = "classifyIngredients"
    /\ ~eval.done
    /\ \E result \in { classifyIngredients(eval.recipeIngredients, eval.pantryItems) } :
           eval' = [eval EXCEPT !.done = TRUE, !.result = Some(result)]
    /\ UNCHANGED storeVars

NextMatching == EvalClassifyIngredients \/ EvalPreviewCook

SpecMatching == InitMatching /\ [][NextMatching]_vars

\* ------------------------------------ previewCook, one ingredient, one row

\* The ingredient: a name the row matches, one it does not, none; no amount,
\* amount 0, an amount; no unit, an empty one, units of two groups, a unit in
\* another spelling, a unit the tables do not know.
SkipIngredients ==
    { Ingredient(name, None, amount, unit) :
        name \in { Some(Str_eggs), Some(Str_foil), None },
        amount \in { None, Some(0), Some(1000) },
        unit \in { None, Some(""), Some("cup"), Some("Cups"), Some("g"), Some("bushel") } }

\* The row: with and without quantity, with and without unit.
SkipInventories ==
    { << PantryRow(1, 1, Str_Eggs, quantity, unit, 1, None) >> :
        quantity \in { None, Some(0), Some(5000) },
        unit \in { None, Some(""), Some("cup"), Some("tbsp"), Some("g"), Some("bushel") } }

InitSkip ==
    /\ \E pantryItems \in SkipInventories, ingredient \in SkipIngredients :
           /\ pantry = pantryItems
           /\ eval = [fn |-> "previewCook", recipe |-> MatchRecipe(<< ingredient >>),
                      servings |-> None, done |-> FALSE, result |-> None]
    /\ groceryLists = << >>
    /\ groceryListItems = << >>
    /\ proc = [p \in Procs |-> IdleProc]
    /\ ops = 0

SpecSkip == InitSkip /\ [][EvalPreviewCook]_vars

\* ------------------------------------------------------ deduplicateItems

\* The loop over items: seen holds the Map's values in insertion order, and an
\* item whose key (name lower-cased and trimmed) is in the Map is passed over.
RECURSIVE DeduplicateLoop(_, _)
DeduplicateLoop(items, seen) ==
    IF items = << >> THEN seen
    ELSE IF \E j \in 1..Len(seen) :
                NormalizeName(seen[j].name) = NormalizeName(Head(items).name)
    THEN DeduplicateLoop(Tail(items), seen)
    ELSE DeduplicateLoop(Tail(items), Append(seen, Head(items)))

\* deduplicateItems keyed by the name as written.
RECURSIVE DeduplicateRawLoop(_, _)
DeduplicateRawLoop(items, seen) ==
    IF items = << >> THEN seen
    ELSE IF \E j \in 1..Len(seen) : seen[j].name = Head(items).name
    THEN DeduplicateRawLoop(Tail(items), seen)
    ELSE DeduplicateRawLoop(Tail(items), Append(seen, Head(items)))

deduplicateItemsByRawName(items) == DeduplicateRawLoop(items, << >>)

\* deduplicateItems: Array.from(seen.values()).
deduplicateItems(items) == DeduplicateLoop(items, << >>)

\* Items a deduplicateItems call sees.
MaxItems == 3

\* Names that differ in case and padding only, and one that differs; the
\* amount tells the occurrences of a name apart.
DeduplicateInputs ==
    LET item == { [name |-> n, amount |-> a] :
                    n \in { Str_Eggs, Str_eggs, Str_eggs_padded, Str_oil },
                    a \in { None, Some("2") } }
    IN UNION { [1..n -> item] : n \in 0..MaxItems }

InitDeduplicate ==
    /\ InitStores
    /\ eval \in { [fn |-> "deduplicateItems", items |-> items, results |-> << >>] :
                    items \in DeduplicateInputs }

\* deduplicateItems applied to the input, then to its own result.
EvalDeduplicateItems ==
    /\ eval.fn = "deduplicateItems"
    /\ Len(eval.results) < 2
    /\ \E result \in { deduplicateItems(IF eval.results = << >> THEN eval.items
                                         ELSE eval.results[Len(eval.results)]) } :
           eval' = [eval EXCEPT !.results = Append(@, result)]
    /\ UNCHANGED storeVars

SpecDeduplicate == InitDeduplicate /\ [][EvalDeduplicateItems]_vars

\* ---------------------------------------------- tryConvert, as a function

\* Unit arguments: every canonical unit, every alias, spellings in other case
\* or with padding, the empty string, and units the tables do not know.
UnitArgs ==
    DOMAIN UNIT_MAP \cup DOMAIN ALIASES \cup DOMAIN UnitSpelling
        \cup { "", "bushel", "pinch" }

\* Amounts in thousandths: nothing, the smallest amount, one unit.
AmountArgs == { 0, 1, 1000 }

InitTryConvert ==
    /\ InitStores
    /\ eval \in { [fn |-> "tryConvert", amount |-> amount, fromUnit |-> fromUnit,
                    toUnit |-> toUnit, done |-> FALSE, result |-> None] :
                    amount \in AmountArgs, fromUnit \in UnitArgs, toUnit \in UnitArgs }

EvalTryConvert ==
    /\ eval.fn = "tryConvert"
    /\ ~eval.done
    /\ \E result \in { tryConvert(eval.amount, eval.fromUnit, eval.toUnit) } :
           eval' = [eval EXCEPT !.done = TRUE, !.result = result]
    /\ UNCHANGED storeVars

SpecTryConvert == InitTryConvert /\ [][EvalTryConvert]_vars

\* ---------------------------------------------------------------- claims

CookOps == { "previewCook", "confirmCook" }

\* The rows of list listId, by normalized name.
RowsNamed(rows, listId, name) ==
    { k \in 1..Len(rows) : rows[k].listId = listId /\ NormalizeName(rows[k].name) = name }

RECURSIVE SumAmounts(_, _)
SumAmounts(deductions, id) ==
    IF deductions = << >> THEN 0
    ELSE (IF Head(deductions).pantryItemId = id THEN Head(deductions).amountDeducted ELSE 0)
         + SumAmounts(Tail(deductions), id)

\* C1: deductQuantity, called directly or by confirmCook, stores
\* max(0, oldQuantity - amount) of the quantity it read, so no stored quantity
\* is negative after a deduction, and no newQuantity that previewCook or
\* confirmCook reports is below 0.
C1_DeductionNeverNegative ==
    [][/\ \A p \in Procs :
             (proc[p].pc = "deduct_write" /\ proc'[p] # proc[p]) =>
                 LET read == Val(proc[p].item)
                     old == IF IsSet(read.quantity) THEN Val(read.quantity) ELSE 0
                     left == old - proc[p].amount
                 IN /\ pantry'[proc[p].itemId].quantity =
                           Some(DbDecimal(IF left > 0 THEN left ELSE 0))
                    /\ Val(pantry'[proc[p].itemId].quantity) >= 0
       /\ \A id \in DOMAIN pantry' :
             IsSet(pantry'[id].quantity) => Val(pantry'[id].quantity) >= 0
       /\ \A p \in Procs :
             /\ IsSet(proc'[p].preview) =>
                    \A k \in 1..Len(Val(proc'[p].preview).deductions) :
                        Val(proc'[p].preview).deductions[k].newQuantity >= 0
             /\ \A k \in 1..Len(proc'[p].executedDeductions) :
                    proc'[p].executedDeductions[k].newQuantity >= 0]_vars

\* C1 witness: confirmCook deducted more than the stock and the row holds 0.
C1_Witness ==
    \E p \in Procs :
        /\ proc[p].op = "confirmCook"
        /\ proc[p].returned = "value"
        /\ \E k \in 1..Len(proc[p].executedDeductions) :
               LET d == proc[p].executedDeductions[k]
               IN /\ d.amountDeducted > d.oldQuantity
                  /\ d.newQuantity = 0
                  /\ pantry[d.pantryItemId].quantity = Some(0)

\* C2: once a row's originalQuantity is set, no step lowers it.
C2_OriginalQuantityNeverDecreases ==
    [][\A id \in DOMAIN pantry :
           IsSet(pantry[id].originalQuantity) =>
               /\ IsSet(pantry'[id].originalQuantity)
               /\ Val(pantry'[id].originalQuantity) >= Val(pantry[id].originalQuantity)]_vars

\* C3: when the only two calls made are confirmCook calls with the same
\* arguments and both have returned, every row they deducted from holds
\* max(0, initial - the amounts of both calls).
C3_RacingConfirmsDeductTwice ==
    \A p, q \in Procs :
        ( /\ p # q
          /\ ops = 2
          /\ proc[p].seq + proc[q].seq = 3
          /\ proc[p].op = "confirmCook" /\ proc[q].op = "confirmCook"
          /\ proc[p].returned = "value" /\ proc[q].returned = "value"
          /\ proc[p].userId = proc[q].userId
          /\ proc[p].recipeId = proc[q].recipeId
          /\ proc[p].servings = proc[q].servings ) =>
            \A k \in 1..Len(Val(proc[p].preview).deductions) :
                LET id == Val(proc[p].preview).deductions[k].pantryItemId
                    total == SumAmounts(Val(proc[p].preview).deductions, id)
                             + SumAmounts(Val(proc[q].preview).deductions, id)
                IN pantry[id].quantity =
                       Some(Max(0, Val(InitialPantry[id].quantity) - total))

\* C4: no step of previewCook (its recipe SELECT, its getItems and loop),
\* whoever runs it and whatever runs beside it, changes a pantry row, a
\* grocery list or a grocery list item.
C4_PreviewCookIsPureRead ==
    [][\A p \in Procs :
           ( \/ proc'[p].seq # proc[p].seq /\ proc'[p].op \in CookOps
             \/ proc[p].pc = "preview_items" /\ proc'[p] # proc[p] ) =>
               /\ pantry' = pantry
               /\ groceryLists' = groceryLists
               /\ groceryListItems' = groceryListItems]_vars

\* C4 witness: two previewCook calls have returned deductions and the stores
\* are as they started.
C4_Witness ==
    /\ \A p \in Procs :
           /\ proc[p].op = "previewCook"
           /\ proc[p].returned = "value"
           /\ Len(Val(proc[p].preview).deductions) > 0
    /\ pantry = [i \in 1..Len(InitialPantry) |-> InitialPantry[i]]
    /\ Len(groceryLists) = 1
    /\ Len(groceryListItems) = 1

\* No saved recipe has this id and this owner.
NoSuchRecipe(userId, recipeId) ==
    ~\E i \in 1..Len(savedRecipes) :
        savedRecipes[i].id = recipeId /\ savedRecipes[i].userId = userId

\* C5: a previewCook or confirmCook call for a recipe that does not exist or
\* belongs to another user returns null in its first step, with the pantry and
\* the grocery lists untouched, and is over (no deduction, no list, no append).
C5_MissingRecipeReturnsNull ==
    [][\A p \in Procs :
           ( /\ proc'[p].seq # proc[p].seq
             /\ proc'[p].op \in CookOps
             /\ NoSuchRecipe(proc'[p].userId, proc'[p].recipeId) ) =>
               /\ proc'[p].returned = "null"
               /\ proc'[p].pc = "idle"
               /\ proc'[p].results = << >>
               /\ proc'[p].addItemsCalls = 0
               /\ pantry' = pantry
               /\ groceryLists' = groceryLists
               /\ groceryListItems' = groceryListItems]_vars

\* C5 witness: confirmCook returned null for a recipe another user owns.
C5_Witness ==
    \E p \in Procs :
        /\ proc[p].op = "confirmCook"
        /\ proc[p].returned = "null"
        /\ \E i \in 1..Len(savedRecipes) :
               savedRecipes[i].id = proc[p].recipeId /\ savedRecipes[i].userId # proc[p].userId

\* C6: in a confirmCook call the executed deductions are, in order, the
\* store's non-null deduct results, each with that result's oldQuantity and
\* newQuantity, and replenishItems are exactly the results whose returned row
\* is a staple with returned newQuantity < 0.9 * returned originalQuantity.
C6_ConfirmReportsStoreResults ==
    \A p \in Procs :
        proc[p].op = "confirmCook" =>
            LET rs == SelectSeq(proc[p].results, LAMBDA r : IsSet(r))
                flagged == SelectSeq(rs, LAMBDA r :
                               /\ Val(r).item.isStaple = 1
                               /\ 10 * Val(r).newQuantity < 9 * Val(r).originalQuantity)
            IN /\ Len(proc[p].executedDeductions) = Len(rs)
               /\ \A k \in 1..Len(rs) :
                      /\ proc[p].executedDeductions[k].pantryItemId = Val(rs[k]).item.id
                      /\ proc[p].executedDeductions[k].oldQuantity = Val(rs[k]).oldQuantity
                      /\ proc[p].executedDeductions[k].newQuantity = Val(rs[k]).newQuantity
               /\ Len(proc[p].replenishItems) = Len(flagged)
               /\ \A k \in 1..Len(flagged) :
                      /\ proc[p].replenishItems[k].name = Val(flagged[k]).item.name
                      /\ proc[p].replenishItems[k].originalQuantity =
                             Val(flagged[k]).originalQuantity

\* C6 witness: another request changed the row between confirmCook's preview
\* read and its deduct, so the executed deduction differs from the preview's.
C6_Witness ==
    \E p \in Procs :
        /\ proc[p].op = "confirmCook"
        /\ proc[p].returned = "value"
        /\ Len(Val(proc[p].preview).deductions) = 1
        /\ Len(proc[p].executedDeductions) = 1
        /\ proc[p].executedDeductions[1].oldQuantity #
               Val(proc[p].preview).deductions[1].oldQuantity

\* C7: in the step in which previewCook reads the pantry, deduction k yields a
\* replenish candidate iff its row is a staple and the post-deduction quantity
\* (unrounded) is below 0.9 * originalQuantity, the row's quantity standing in
\* for an unset originalQuantity; the candidates come in the deductions' order.
C7_PreviewReplenishIffStapleBelowThreshold ==
    [][\A p \in Procs :
           (proc[p].pc = "preview_items" /\ proc'[p] # proc[p]) =>
               LET pv == Val(proc'[p].preview)
                   row(k) == pantry[pv.deductions[k].pantryItemId]
                   orig(k) == IF IsSet(row(k).originalQuantity)
                              THEN Val(row(k).originalQuantity)
                              ELSE Val(row(k).quantity)
                   Flagged(k) == row(k).isStaple = 1 /\ 10 * pv.unrounded[k] < 9 * orig(k)
                   flagged == SelectSeq([k \in 1..Len(pv.deductions) |-> k], Flagged)
               IN /\ Len(pv.unrounded) = Len(pv.deductions)
                  /\ \A k \in 1..Len(pv.deductions) :
                         /\ Round2(pv.unrounded[k]) = pv.deductions[k].newQuantity
                         /\ pv.unrounded[k] > 0 =>
                                Round2(Val(row(k).quantity) - pv.unrounded[k]) =
                                    pv.deductions[k].amountDeducted
                  /\ Len(pv.replenishItems) = Len(flagged)
                  /\ \A j \in 1..Len(flagged) :
                         /\ pv.replenishItems[j].name = row(flagged[j]).name
                         /\ pv.replenishItems[j].originalQuantity = orig(flagged[j])]_vars

\* C7 witness: previewCook flagged a staple whose originalQuantity is unset.
C7_Witness ==
    \E p \in Procs :
        /\ proc[p].op = "previewCook"
        /\ proc[p].returned = "value"
        /\ \E j \in 1..Len(Val(proc[p].preview).replenishItems) :
               \E id \in DOMAIN pantry :
                   /\ pantry[id].name = Val(proc[p].preview).replenishItems[j].name
                   /\ pantry[id].userId = proc[p].userId
                   /\ pantry[id].isStaple = 1
                   /\ ~IsSet(pantry[id].originalQuantity)

\* C8: the rows a confirmCook append adds carry no normalized name that a row
\* of the same list had when the append ran; and when every candidate's
\* normalized name is on the list, the call returns without invoking addItems.
C8_NeverAppendsPresentName ==
    [][\A p \in Procs :
           /\ (proc[p].pc = "add_items" /\ proc'[p] # proc[p]) =>
                  \A k \in (Len(groceryListItems) + 1)..Len(groceryListItems') :
                      RowsNamed(groceryListItems, groceryListItems'[k].listId,
                                NormalizeName(groceryListItems'[k].name)) = {}
           /\ ( /\ proc[p].pc = "list_items"
                /\ proc'[p] # proc[p]
                /\ \A k \in 1..Len(proc[p].replenishItems) :
                       RowsNamed(groceryListItems, Val(proc[p].list).id,
                                 NormalizeName(proc[p].replenishItems[k].name)) # {} ) =>
                  /\ proc'[p].returned = "value"
                  /\ proc'[p].pc = "idle"
                  /\ proc'[p].addItemsCalls = 0
                  /\ groceryListItems' = groceryListItems]_vars

\* C9: when the two latest calls are confirmCook calls of one user, run one
\* after the other, and each flagged a staple of the same normalized name, the
\* user's auto-replenish list holds exactly one row of that name.
C9_SequentialConfirmsLeaveOneEntry ==
    \A p, q \in Procs :
        ( /\ p # q
          /\ proc[p].op = "confirmCook" /\ proc[q].op = "confirmCook"
          /\ proc[p].returned = "value" /\ proc[q].returned = "value"
          /\ proc[p].userId = proc[q].userId
          /\ IsSet(proc[p].list) /\ IsSet(proc[q].list) ) =>
            \A j \in 1..Len(proc[p].replenishItems) :
                \A k \in 1..Len(proc[q].replenishItems) :
                    NormalizeName(proc[p].replenishItems[j].name) =
                        NormalizeName(proc[q].replenishItems[k].name) =>
                            Cardinality(RowsNamed(groceryListItems, Val(proc[p].list).id,
                                NormalizeName(proc[p].replenishItems[j].name))) = 1

\* C10: getOrCreateAutoReplenishList, called one call at a time: its SELECT
\* returns an existing Auto-Replenish list of the user and inserts nothing;
\* when there is none its INSERT creates one list for that user; no user ever
\* has two such lists, and the list a call returned is the user's only one.
C10_GetOrCreateListIdempotent ==
    [][/\ \A p \in Procs :
              (proc[p].pc = "list_select" /\ proc'[p] # proc[p]) =>
                  /\ groceryLists' = groceryLists
                  /\ IF AutoReplenishLists(proc[p].userId) # {}
                     THEN /\ proc'[p].pc = "list_items"
                          /\ IsSet(proc'[p].list)
                          /\ ~proc'[p].created
                          /\ \E i \in AutoReplenishLists(proc[p].userId) :
                                 groceryLists[i] = Val(proc'[p].list)
                     ELSE proc'[p].pc = "list_insert"
       /\ \A p \in Procs :
              (proc[p].pc = "list_insert" /\ proc'[p] # proc[p]) =>
                  /\ Len(groceryLists') = Len(groceryLists) + 1
                  /\ SubSeq(groceryLists', 1, Len(groceryLists)) = groceryLists
                  /\ groceryLists'[Len(groceryLists')] = Val(proc'[p].list)
                  /\ Val(proc'[p].list).userId = proc[p].userId
                  /\ Val(proc'[p].list).name = Str_Auto_Replenish
       /\ \A u \in Users :
              Cardinality({ i \in 1..Len(groceryLists') :
                              /\ groceryLists'[i].userId = u
                              /\ groceryLists'[i].name = Str_Auto_Replenish }) <= 1
       /\ \A p \in Procs :
              IsSet(proc'[p].list) =>
                  { groceryLists'[i] : i \in { i \in 1..Len(groceryLists') :
                        /\ groceryLists'[i].userId = proc'[p].userId
                        /\ groceryLists'[i].name = Str_Auto_Replenish } }
                      = { Val(proc'[p].list) }]_vars

\* C10 witness: of two calls run one after the other for one user, the first
\* created the list and the second returned that same list, the user's only one.
C10_Witness ==
    \E p, q \in Procs :
        /\ p # q
        /\ proc[p].op = "confirmCook" /\ proc[q].op = "confirmCook"
        /\ proc[p].returned = "value" /\ proc[q].returned = "value"
        /\ proc[p].userId = proc[q].userId
        /\ proc[p].created /\ ~proc[q].created
        /\ IsSet(proc[q].list)
        /\ proc[p].list = proc[q].list
        /\ Cardinality(AutoReplenishLists(proc[p].userId)) = 1

\* The saved recipe a cook call found.
RecipeOf(p) ==
    CHOOSE r \in SeqRange(savedRecipes) :
        r.id = proc[p].recipeId /\ r.userId = proc[p].userId

\* The positions in the recipe of the ingredient reported under this name.
IngredientPositions(recipe, ingredientName) ==
    { i \in 1..Len(recipe.ingredientsJson) :
        IngredientNameOf(recipe.ingredientsJson[i]) = ingredientName }

\* The entries (records with an ingredientName) follow the recipe's order.
InRecipeOrder(entries, recipe) ==
    \A j, k \in 1..Len(entries) :
        j < k => \A a \in IngredientPositions(recipe, entries[j].ingredientName) :
                     \A b \in IngredientPositions(recipe, entries[k].ingredientName) : a < b

\* C11: a previewCook that found its recipe returns a value, in which every
\* recipe ingredient has exactly one entry, a deduction or a skipped item with
\* a reason: deductions plus skipped items number the recipe's ingredients.
C11_EveryIngredientYieldsOneEntry ==
    \A p \in Procs :
        /\ ( /\ proc[p].op \in CookOps
             /\ proc[p].pc # "preview_items"
             /\ ~NoSuchRecipe(proc[p].userId, proc[p].recipeId) ) => IsSet(proc[p].preview)
        /\ (proc[p].op = "previewCook" /\ IsSet(proc[p].preview)) =>
               proc[p].returned = "value"
        /\ IsSet(proc[p].preview) =>
               LET pv == Val(proc[p].preview)
                   ingredients == RecipeOf(p).ingredientsJson
               IN /\ Len(pv.deductions) + Len(pv.skipped) = Len(ingredients)
                  /\ \A i \in 1..Len(ingredients) :
                         Cardinality({ k \in 1..Len(pv.deductions) :
                                         pv.deductions[k].ingredientName =
                                             IngredientNameOf(ingredients[i]) })
                         + Cardinality({ k \in 1..Len(pv.skipped) :
                                           pv.skipped[k].ingredientName =
                                               IngredientNameOf(ingredients[i]) }) = 1
                  /\ \A k \in 1..Len(pv.skipped) : pv.skipped[k].reason # << >>

\* C11 witness: a previewCook returned deductions and items skipped for two
\* different reasons.
C11_Witness ==
    \E p \in Procs :
        /\ proc[p].op = "previewCook"
        /\ proc[p].returned = "value"
        /\ Len(Val(proc[p].preview).deductions) > 0
        /\ \E j, k \in 1..Len(Val(proc[p].preview).skipped) :
               Val(proc[p].preview).skipped[j].reason # Val(proc[p].preview).skipped[k].reason

\* C12: deductions and skipped items of a preview each follow the recipe's
\* ingredient order, and confirmCook calls the store's deduct for the
\* preview's deductions one by one in that order.
C12_IngredientsInRecipeOrder ==
    \A p \in Procs :
        IsSet(proc[p].preview) =>
            LET pv == Val(proc[p].preview)
            IN /\ InRecipeOrder(pv.deductions, RecipeOf(p))
               /\ InRecipeOrder(pv.skipped, RecipeOf(p))
               /\ proc[p].op = "confirmCook" =>
                      /\ Len(proc[p].results) <= Len(pv.deductions)
                      /\ \A k \in 1..Len(proc[p].results) :
                             IsSet(proc[p].results[k]) =>
                                 Val(proc[p].results[k]).item.id = pv.deductions[k].pantryItemId
                      /\ proc[p].pc \in { "deduct_read", "deduct_write" } =>
                             proc[p].idx = Len(proc[p].results) + 1
                      /\ proc[p].pc = "deduct_write" =>
                             /\ proc[p].itemId = pv.deductions[proc[p].idx].pantryItemId
                             /\ proc[p].amount = pv.deductions[proc[p].idx].amountDeducted
                      /\ proc[p].returned = "value" =>
                             Len(proc[p].results) = Len(pv.deductions)
                      /\ InRecipeOrder(proc[p].executedDeductions, RecipeOf(p))

\* C12 witness: a confirmCook executed two deductions and skipped two ingredients.
C12_Witness ==
    \E p \in Procs :
        /\ proc[p].op = "confirmCook"
        /\ proc[p].returned = "value"
        /\ Len(proc[p].executedDeductions) >= 2
        /\ Len(Val(proc[p].preview).skipped) >= 2

\* The ingredient of the evaluated recipe reported under this name.
EvalIngredient(ingredientName) ==
    eval.recipe.ingredientsJson[
        CHOOSE i \in IngredientPositions(eval.recipe, ingredientName) : TRUE]

\* Every deduction of the evaluated preview is the ingredient's amount times
\* requested / the recipe's serving count when that count is positive, times 1
\* otherwise (no deduction of the model's recipes changes unit).
EvalAmountsScaledBy(requested) ==
    \A k \in 1..Len(Val(eval.result).deductions) :
        LET d == Val(eval.result).deductions[k]
            amount == Val(EvalIngredient(d.ingredientName).amount)
            own == eval.recipe.servings
        IN IF IsSet(own) /\ Val(own) > 0
           THEN /\ (amount * requested) % Val(own) = 0
                /\ d.amountDeducted = Round2((amount * requested) \div Val(own))
           ELSE d.amountDeducted = Round2(amount)

\* C13 as stated: requestedServings is the servings argument whenever one is
\* given, else the recipe's serving count whenever it has one, else 1, and the
\* amounts are scaled by requestedServings / recipe servings.
C13_ServingsAsStated ==
    (eval.fn = "previewCook" /\ eval.done) =>
        LET requested == IF IsSet(eval.servings) THEN Val(eval.servings)
                         ELSE IF IsSet(eval.recipe.servings) THEN Val(eval.recipe.servings)
                         ELSE 1
        IN /\ Val(eval.result).requestedServings = requested
           /\ EvalAmountsScaledBy(requested)

\* C13 amended: requestedServings is the servings argument if given and not
\* zero, else the recipe's serving count if set and not zero, else 1; each
\* deducted amount is the ingredient's amount times requestedServings / the
\* recipe's serving count when that count is positive and times 1 otherwise.
C13_ServingsScaling ==
    (eval.fn = "previewCook" /\ eval.done) =>
        LET requested ==
                IF IsSet(eval.servings) /\ Val(eval.servings) # 0 THEN Val(eval.servings)
                ELSE IF IsSet(eval.recipe.servings) /\ Val(eval.recipe.servings) # 0
                     THEN Val(eval.recipe.servings)
                ELSE 1
        IN /\ Val(eval.result).requestedServings = requested
           /\ EvalAmountsScaledBy(requested)

\* C13 witness: a 4-serving recipe previewed at 8 servings deducts twice the
\* ingredient's amount.
C13_Witness ==
    /\ eval.fn = "previewCook"
    /\ eval.done
    /\ eval.servings = Some(8)
    /\ eval.recipe.servings = Some(4)
    /\ Val(eval.result).requestedServings = 8
    /\ \E k \in 1..Len(Val(eval.result).deductions) :
           Val(eval.result).deductions[k].amountDeducted =
               2 * Val(EvalIngredient(Val(eval.result).deductions[k].ingredientName).amount)

\* The entries of a sequence equal to v.
Occurrences(seq, v) == { k \in 1..Len(seq) : seq[k] = v }

\* The ingredients of the partial list.
PartialIngredients(result) == [k \in 1..Len(result.partial) |-> result.partial[k].ingredient]

\* The ingredient's name, else its original, lower-cased and trimmed; empty
\* when it has neither.
TextOf(ingredient) ==
    LET raw == IF IsSet(ingredient.name) /\ Val(ingredient.name) # << >>
               THEN Val(ingredient.name)
               ELSE IF IsSet(ingredient.original) THEN Val(ingredient.original)
               ELSE << >>
    IN Trim(ToLowerCase(raw))

\* C14: classifyIngredients partitions its input: every ingredient occurs in
\* matched, partial and missing together as often as in the input and in one
\* of them only, so the three sizes sum to the input length; an ingredient
\* with empty comparison text is in missing.
C14_ClassifyPartitions ==
    (eval.fn = "classifyIngredients" /\ eval.done) =>
        LET r == Val(eval.result)
            input == eval.recipeIngredients
        IN /\ Len(r.matched) + Len(r.partial) + Len(r.missing) = Len(input)
           /\ \A v \in SeqRange(input) \cup SeqRange(r.matched) \cup SeqRange(r.missing)
                       \cup SeqRange(PartialIngredients(r)) :
                  /\ Cardinality(Occurrences(r.matched, v))
                         + Cardinality(Occurrences(PartialIngredients(r), v))
                         + Cardinality(Occurrences(r.missing, v))
                       = Cardinality(Occurrences(input, v))
                  /\ Cardinality({ c \in { r.matched, PartialIngredients(r), r.missing } :
                                     Occurrences(c, v) # {} }) <= 1
                  /\ TextOf(v) = << >> =>
                         Cardinality(Occurrences(r.missing, v))
                             = Cardinality(Occurrences(input, v))

\* C14 witness: one call filled matched, partial and missing, the last with
\* an ingredient that has no name and no original.
C14_Witness ==
    /\ eval.fn = "classifyIngredients"
    /\ eval.done
    /\ Len(Val(eval.result).matched) > 0
    /\ Len(Val(eval.result).partial) > 0
    /\ \E k \in 1..Len(Val(eval.result).missing) :
           /\ ~IsSet(Val(eval.result).missing[k].name)
           /\ ~IsSet(Val(eval.result).missing[k].original)

\* word occurs in text as a run of complete words: no letter, digit or
\* underscore stands directly before or after the occurrence.
OccursAsWholeWords(word, text) ==
    \E i \in 1..Len(text) :
        /\ i + Len(word) - 1 <= Len(text)
        /\ SubSeq(text, i, i + Len(word) - 1) = word
        /\ i = 1 \/ ~IsWordChar(text[i - 1])
        /\ i + Len(word) > Len(text) \/ ~IsWordChar(text[i + Len(word)])

\* word occurs in text somewhere, inside a word or not.
OccursAnywhere(word, text) ==
    \E i \in 1..Len(text) :
        /\ i + Len(word) - 1 <= Len(text)
        /\ SubSeq(text, i, i + Len(word) - 1) = word

\* The whole-word partial-match rule between an inventory name and an
\* ingredient text, both lower-cased and trimmed.
PartialRule(inventoryName, text) ==
    OccursAsWholeWords(inventoryName, text) \/ OccursAsWholeWords(text, inventoryName)

\* The inventory positions whose name equals the text / satisfies the rule.
ExactPositions(pantryItems, text) ==
    { k \in 1..Len(pantryItems) : Trim(ToLowerCase(pantryItems[k].name)) = text }

PartialPositions(pantryItems, text) ==
    { k \in 1..Len(pantryItems) : PartialRule(Trim(ToLowerCase(pantryItems[k].name)), text) }

\* C15: in classifyIngredients an ingredient whose (non-empty) comparison text
\* equals an inventory name, case-insensitively after trimming, is in matched
\* and not in partial, wherever that name stands in the inventory and whatever
\* other inventory names partially match the text.
C15_ExactMatchTakesPrecedence ==
    (eval.fn = "classifyIngredients" /\ eval.done) =>
        \A v \in SeqRange(eval.recipeIngredients) :
            (TextOf(v) # << >> /\ ExactPositions(eval.pantryItems, TextOf(v)) # {}) =>
                /\ Cardinality(Occurrences(Val(eval.result).matched, v))
                       = Cardinality(Occurrences(eval.recipeIngredients, v))
                /\ Occurrences(PartialIngredients(Val(eval.result)), v) = {}

\* C15 witness: an ingredient is in matched although an inventory name that
\* partially matches it comes before the equal one.
C15_Witness ==
    /\ eval.fn = "classifyIngredients"
    /\ eval.done
    /\ \E v \in SeqRange(Val(eval.result).matched) :
           \E j \in PartialPositions(eval.pantryItems, TextOf(v)) :
               \E k \in ExactPositions(eval.pantryItems, TextOf(v)) :
                   j < k /\ j \notin ExactPositions(eval.pantryItems, TextOf(v))

\* C16: for an ingredient that no inventory name matches exactly,
\* classifyIngredients reports as pantryItemName the display name of the first
\* inventory item, in iteration order, that satisfies the partial-match rule.
C16_FirstPartialMatchWins ==
    (eval.fn = "classifyIngredients" /\ eval.done) =>
        \A k \in 1..Len(Val(eval.result).partial) :
            LET entry == Val(eval.result).partial[k]
                hits == PartialPositions(eval.pantryItems, TextOf(entry.ingredient))
            IN /\ hits # {}
               /\ entry.pantryItemName =
                      eval.pantryItems[CHOOSE i \in hits : \A j \in hits : i <= j].name

FirstPosition(items, key) ==
    CHOOSE i \in 1..Len(items) :
        /\ Trim(ToLowerCase(items[i].name)) = key
        /\ \A j \in 1..(i - 1) : Trim(ToLowerCase(items[j].name)) # key

\* C18: deduplicateItems returns one entry per lower-cased, trimmed name of
\* its input, that entry being the input's first item of the name, in the
\* order of first occurrence; applied to its own result it returns the same.
C18_DeduplicateKeepsFirst ==
    (eval.fn = "deduplicateItems" /\ eval.results # << >>) =>
        LET out == eval.results[1]
            key(item) == Trim(ToLowerCase(item.name))
        IN /\ \A j, k \in 1..Len(out) : j # k => key(out[j]) # key(out[k])
           /\ { key(out[k]) : k \in 1..Len(out) }
                  = { key(eval.items[i]) : i \in 1..Len(eval.items) }
           /\ \A k \in 1..Len(out) : out[k] = eval.items[FirstPosition(eval.items, key(out[k]))]
           /\ \A j, k \in 1..Len(out) :
                  j < k => FirstPosition(eval.items, key(out[j]))
                               < FirstPosition(eval.items, key(out[k]))
           /\ Len(eval.results) = 2 => eval.results[2] = out

\* C18 witness: a second application returned the result of the first, which
\* kept two names and dropped a later item that differs from the kept one.
C18_Witness ==
    /\ eval.fn = "deduplicateItems"
    /\ Len(eval.results) = 2
    /\ Len(eval.results[1]) = 2
    /\ \E i \in 1..Len(eval.items) :
           /\ eval.items[i] \notin SeqRange(eval.results[1])
           /\ \E k \in 1..Len(eval.results[1]) :
                  /\ Trim(ToLowerCase(eval.results[1][k].name))
                         = Trim(ToLowerCase(eval.items[i].name))
                  /\ eval.results[1][k].name # eval.items[i].name

\* A unit is recognized when, lower-cased and trimmed, it is a canonical unit
\* or an alias of one.
Recognized(unit) ==
    \/ LowerTrimUnit(unit) \in DOMAIN UNIT_MAP
    \/ /\ LowerTrimUnit(unit) \in DOMAIN ALIASES
       /\ ALIASES[LowerTrimUnit(unit)] \in DOMAIN UNIT_MAP

\* The group of a recognized unit.
GroupOf(unit) == UNIT_MAP[normalize(unit)].group

\* C19 as stated: tryConvert returns null whenever the from-unit or the
\* to-unit is unrecognized.
C19_UnrecognizedIsNull ==
    ( /\ eval.fn = "tryConvert"
      /\ eval.done
      /\ ~Recognized(eval.fromUnit) \/ ~Recognized(eval.toUnit) ) =>
        eval.result = None

\* C19 amended: tryConvert returns null, for every amount, whenever the
\* from-unit or the to-unit is unrecognized and the two units do not normalize
\* to the same string; when they do, it returns the amount unchanged.
C19_UnrecognizedDistinctIsNull ==
    ( /\ eval.fn = "tryConvert"
      /\ eval.done
      /\ ~Recognized(eval.fromUnit) \/ ~Recognized(eval.toUnit) ) =>
        IF normalize(eval.fromUnit) = normalize(eval.toUnit)
        THEN eval.result = Some(eval.amount)
        ELSE eval.result = None

\* C19 witness: a conversion from a canonical unit to an unknown one gave null.
C19_Witness ==
    /\ eval.fn = "tryConvert"
    /\ eval.done
    /\ eval.amount > 0
    /\ eval.fromUnit = "cup"
    /\ ~Recognized(eval.toUnit)
    /\ eval.toUnit # ""
    /\ eval.result = None

\* C20: for two recognized units tryConvert returns null when their groups
\* differ and when both are count units that normalize to different units;
\* it returns a number only if both are volume units, both are weight units,
\* or both normalize to the same unit.
C20_GroupIsolation ==
    ( /\ eval.fn = "tryConvert"
      /\ eval.done
      /\ Recognized(eval.fromUnit)
      /\ Recognized(eval.toUnit) ) =>
        /\ GroupOf(eval.fromUnit) # GroupOf(eval.toUnit) => eval.result = None
        /\ ( /\ GroupOf(eval.fromUnit) = "count"
             /\ GroupOf(eval.toUnit) = "count"
             /\ normalize(eval.fromUnit) # normalize(eval.toUnit) ) => eval.result = None
        /\ IsSet(eval.result) =>
               \/ GroupOf(eval.fromUnit) = "volume" /\ GroupOf(eval.toUnit) = "volume"
               \/ GroupOf(eval.fromUnit) = "weight" /\ GroupOf(eval.toUnit) = "weight"
               \/ normalize(eval.fromUnit) = normalize(eval.toUnit)

\* C20 witness: cans to bag, two count units of different kinds, gave null.
C20_Witness ==
    /\ eval.fn = "tryConvert"
    /\ eval.done
    /\ eval.amount > 0
    /\ eval.fromUnit = "cans"
    /\ eval.toUnit = "bag"
    /\ eval.result = None

\* The canonical unit a spelling stands for: lower-cased and trimmed, then
\* looked up among the aliases.
CanonicalOf(unit) ==
    IF LowerTrimUnit(unit) \in DOMAIN ALIASES
    THEN ALIASES[LowerTrimUnit(unit)]
    ELSE LowerTrimUnit(unit)

\* C21: when the two units stand for the same canonical unit (a unit and one
\* of its aliases, in any case) tryConvert returns the amount unchanged.
C21_AliasConversionIsIdentity ==
    ( /\ eval.fn = "tryConvert"
      /\ eval.done
      /\ CanonicalOf(eval.fromUnit) = CanonicalOf(eval.toUnit) ) =>
        eval.result = Some(eval.amount)

\* C21 witness: an alias written in upper case converted to another alias of
\* the same unit, and teaspoons to tsp, leave the amount as it is.
C21_Witness ==
    /\ eval.fn = "tryConvert"
    /\ eval.done
    /\ eval.amount > 0
    /\ \/ eval.fromUnit = "TBSP" /\ eval.toUnit = "tablespoons"
       \/ eval.fromUnit = "teaspoons" /\ eval.toUnit = "tsp"
    /\ eval.result = Some(eval.amount)

\* q is a confirmCook call that ran right after the previewCook call p with
\* the same arguments, nothing else running; both returned a value.
PreviewThenConfirm(p, q) ==
    /\ proc[p].op = "previewCook" /\ proc[q].op = "confirmCook"
    /\ proc[p].returned = "value" /\ proc[q].returned = "value"
    /\ proc[q].seq = proc[p].seq + 1
    /\ proc[p].userId = proc[q].userId
    /\ proc[p].recipeId = proc[q].recipeId
    /\ proc[p].servings = proc[q].servings

\* No two deductions name the same pantry item.
DistinctItems(deductions) ==
    \A j, k \in 1..Len(deductions) :
        j # k => deductions[j].pantryItemId # deductions[k].pantryItemId

NamesOf(items) == [k \in 1..Len(items) |-> items[k].name]

\* C22: when a confirmCook follows a previewCook of the same recipe on the
\* same inventory and the recipe's ingredients resolve to distinct pantry
\* items, confirmCook flags for replenishment the items previewCook flagged.
C22_ReplenishDecisionConsistent ==
    \A p, q \in Procs :
        (PreviewThenConfirm(p, q) /\ DistinctItems(Val(proc[p].preview).deductions)) =>
            NamesOf(proc[q].replenishItems) = NamesOf(Val(proc[p].preview).replenishItems)

\* C23: the UPDATE of a deductQuantity whose getItem found originalQuantity
\* set leaves the row's originalQuantity as it is and the call returns the
\* value it read; when getItem found it absent, the UPDATE stores the
\* pre-deduction quantity as originalQuantity and the call returns that
\* quantity. When no other call wrote the row since the getItem, the returned
\* originalQuantity is the one the row holds afterwards.
C23_DeductSnapshotsOriginalQuantity ==
    [][\A p \in Procs :
           (proc[p].pc = "deduct_write" /\ proc'[p] # proc[p]) =>
               LET id == proc[p].itemId
                   read == Val(proc[p].item)
                   old == IF IsSet(read.quantity) THEN Val(read.quantity) ELSE 0
                   returned == Val(proc'[p].results[Len(proc'[p].results)])
               IN /\ IF IsSet(read.originalQuantity)
                     THEN /\ pantry'[id].originalQuantity = pantry[id].originalQuantity
                          /\ returned.originalQuantity = Val(read.originalQuantity)
                     ELSE /\ pantry'[id].originalQuantity = Some(old)
                          /\ returned.originalQuantity = old
                  /\ returned.oldQuantity = old
                  /\ pantry[id] = read =>
                         pantry'[id].originalQuantity = Some(returned.originalQuantity)]_vars

\* C23 witness: one row was deducted from with originalQuantity absent, which
\* now holds the pre-deduction quantity, and another with it set, which still
\* holds it above the quantity left.
C23_Witness ==
    /\ \E p \in Procs :
           \E k \in 1..Len(proc[p].results) :
               /\ IsSet(proc[p].results[k])
               /\ ~IsSet(Val(proc[p].results[k]).item.originalQuantity)
               /\ Val(proc[p].results[k]).originalQuantity = Val(proc[p].results[k]).oldQuantity
               /\ pantry[Val(proc[p].results[k]).item.id].originalQuantity =
                      Some(Val(proc[p].results[k]).oldQuantity)
               /\ Val(pantry[Val(proc[p].results[k]).item.id].quantity) <
                      Val(proc[p].results[k]).oldQuantity
    /\ \E p \in Procs :
           \E k \in 1..Len(proc[p].results) :
               /\ IsSet(proc[p].results[k])
               /\ IsSet(Val(proc[p].results[k]).item.originalQuantity)
               /\ pantry[Val(proc[p].results[k]).item.id].originalQuantity =
                      Val(proc[p].results[k]).item.originalQuantity
               /\ Val(pantry[Val(proc[p].results[k]).item.id].quantity) <
                      Val(Val(proc[p].results[k]).item.originalQuantity)

\* C24: the UPDATE of an updateItem whose quantity is strictly greater than
\* the quantity its getItem read (nothing counting as 0) sets originalQuantity
\* to the new quantity; with a quantity less than or equal to it, or with no
\* quantity, it leaves originalQuantity as it is; addItem inserts a row whose
\* originalQuantity is the provided quantity.
C24_RestockSetsOriginalQuantity ==
    [][\A p \in Procs :
           /\ (proc[p].pc = "update_write" /\ proc'[p] # proc[p]) =>
                  LET id == proc[p].itemId
                      read == Val(proc[p].item)
                      data == Val(proc[p].data)
                      current == IF IsSet(read.quantity) THEN Val(read.quantity) ELSE 0
                  IN IF IsSet(data.quantity) /\ Val(data.quantity) > current
                     THEN /\ pantry'[id].originalQuantity = data.quantity
                          /\ pantry'[id].quantity = data.quantity
                     ELSE pantry'[id].originalQuantity = pantry[id].originalQuantity
           /\ (proc'[p].seq # proc[p].seq /\ proc'[p].op = "addItem") =>
                  LET id == proc'[p].itemId
                  IN /\ id \notin DOMAIN pantry
                     /\ pantry'[id].originalQuantity = Val(proc'[p].data).quantity
                     /\ pantry'[id].originalQuantity = pantry'[id].quantity]_vars

\* C24 witness: an updateItem to 8 of a row that held 12 left originalQuantity
\* at 12, and a later updateItem to 20 set it to 20.
C24_Witness ==
    \E p, q \in Procs :
        /\ proc[p].op = "updateItem" /\ proc[q].op = "updateItem"
        /\ proc[p].returned = "value" /\ proc[q].returned = "value"
        /\ proc[p].seq < proc[q].seq
        /\ Val(proc[p].data).quantity = Some(8000)
        /\ Val(proc[p].row).originalQuantity = Some(12000)
        /\ Val(proc[q].data).quantity = Some(20000)
        /\ Val(proc[q].row).originalQuantity = Some(20000)
        /\ pantry[proc[q].itemId].originalQuantity = Some(20000)

\* The unit algebra allows a conversion: the units stand for the same
\* canonical unit, or both are recognized units of the volume group or of the
\* weight group.
Convertible(fromUnit, toUnit) ==
    \/ CanonicalOf(fromUnit) = CanonicalOf(toUnit)
    \/ /\ Recognized(fromUnit)
       /\ Recognized(toUnit)
       /\ GroupOf(fromUnit) = GroupOf(toUnit)
       /\ GroupOf(fromUnit) \in { "volume", "weight" }

\* C25: previewCook of a one-ingredient recipe on a one-row pantry skips the
\* ingredient for the first reason that applies, in this order: no amount; not
\* found in the pantry; the row lacks quantity or unit; the units are
\* incompatible. Otherwise it is a deduction. The unit algebra decides only
\* when the recipe unit is non-empty and differs from the pantry unit; in the
\* other case the amount is deducted as it stands.
C25_SkipReasonPrecedence ==
    (eval.fn = "previewCook" /\ eval.done /\ Len(eval.recipe.ingredientsJson) = 1
     /\ Len(pantry) = 1) =>
        LET ingredient == eval.recipe.ingredientsJson[1]
            text == Trim(ToLowerCase(IngredientNameOf(ingredient)))
            row == pantry[1]
            recipeUnit == IF IsSet(ingredient.unit) THEN Val(ingredient.unit) ELSE ""
            noAmount == ~IsSet(ingredient.amount) \/ Val(ingredient.amount) = 0
            notFound == ExactPositions(pantry, text) \cup PartialPositions(pantry, text) = {}
            lacking == ~IsSet(row.quantity) \/ ~IsSet(row.unit) \/ Val(row.unit) = ""
            consulted == recipeUnit # "" /\ recipeUnit # Val(row.unit)
            result == Val(eval.result)
            SkippedFor(reason) ==
                /\ result.deductions = << >>
                /\ result.skipped = << [ingredientName |-> IngredientNameOf(ingredient),
                                        reason |-> reason] >>
        IN IF noAmount THEN SkippedFor(<< "No amount specified (used but not tracked)" >>)
           ELSE IF notFound THEN SkippedFor(<< "Not found in pantry" >>)
           ELSE IF lacking THEN SkippedFor(<< "Pantry item has no quantity/unit set" >>)
           ELSE IF consulted /\ ~Convertible(recipeUnit, Val(row.unit))
           THEN SkippedFor(<< "Incompatible units", recipeUnit, Val(row.unit) >>)
           ELSE /\ result.skipped = << >>
                /\ Len(result.deductions) = 1
                /\ result.deductions[1].pantryItemId = row.id
                /\ ~consulted => result.deductions[1].amountDeducted = Val(ingredient.amount)

\* C25 witness: an ingredient without amount and without a matching row is
\* skipped for the missing amount.
C25_Witness ==
    /\ eval.fn = "previewCook"
    /\ eval.done
    /\ Len(eval.recipe.ingredientsJson) = 1
    /\ ~IsSet(eval.recipe.ingredientsJson[1].amount)
    /\ eval.recipe.ingredientsJson[1].name = Some(Str_foil)
    /\ Val(eval.result).skipped =
           << [ingredientName |-> Str_foil,
               reason |-> << "No amount specified (used but not tracked)" >>] >>

ListSteps == { "list_select", "list_insert", "list_items", "add_items" }

\* C26: a confirmCook call reaches the list lookup only with at least one
\* confirmed candidate, and only such a call creates a list; a call that
\* returned a value returned no list id exactly when it confirmed no candidate,
\* and then it read and appended nothing; otherwise the id is that of an
\* Auto-Replenish list of the user, also when nothing was appended.
C26_ListIdIffCandidate ==
    [][/\ \A p \in Procs :
              proc'[p].op = "confirmCook" =>
                  /\ proc'[p].pc \in ListSteps => proc'[p].replenishItems # << >>
                  /\ proc'[p].replenishItems = << >> =>
                         /\ ~IsSet(proc'[p].list)
                         /\ ~proc'[p].created
                         /\ proc'[p].addItemsCalls = 0
                  /\ proc'[p].returned = "value" =>
                         /\ IsSet(proc'[p].list) <=> proc'[p].replenishItems # << >>
                         /\ IsSet(proc'[p].list) =>
                                \E i \in 1..Len(groceryLists') :
                                    /\ groceryLists'[i] = Val(proc'[p].list)
                                    /\ groceryLists'[i].id = i
                                    /\ groceryLists'[i].userId = proc'[p].userId
                                    /\ groceryLists'[i].name = Str_Auto_Replenish
       /\ groceryLists' # groceryLists =>
              \E p \in Procs :
                  /\ proc[p].pc = "list_insert"
                  /\ proc[p].replenishItems # << >>
                  /\ proc'[p].created]_vars

\* C26 witness: one confirmCook executed a deduction, confirmed no candidate
\* and returned no list id; another confirmed a candidate that was on the
\* list already, appended nothing and returned the list's id.
C26_Witness ==
    \E p, q \in Procs :
        /\ proc[p].op = "confirmCook" /\ proc[q].op = "confirmCook"
        /\ proc[p].returned = "value" /\ proc[q].returned = "value"
        /\ Len(proc[p].executedDeductions) > 0
        /\ proc[p].replenishItems = << >>
        /\ ~IsSet(proc[p].list)
        /\ proc[q].replenishItems # << >>
        /\ proc[q].addItemsCalls = 0
        /\ IsSet(proc[q].list)
        /\ Val(proc[q].list).userId = proc[q].userId

OwnerOps == { "deductQuantity", "updateItem", "deleteItem" }

\* C27: a deductQuantity, updateItem or deleteItem call whose userId does not
\* own the item id (or whose id no row has) returns null at once and changes
\* no pantry row; and no step of any of these calls or of confirmCook changes
\* or removes a row of a user other than the caller.
C27_MutationsScopedToOwner ==
    [][\A p \in Procs :
           /\ ( /\ proc'[p].seq # proc[p].seq
                /\ proc'[p].op \in OwnerOps
                /\ ~\E id \in DOMAIN pantry :
                       id = proc'[p].itemId /\ pantry[id].userId = proc'[p].userId ) =>
                  /\ proc'[p].returned = "null"
                  /\ proc'[p].pc = "idle"
                  /\ pantry' = pantry
           /\ (proc'[p] # proc[p] /\ proc'[p].op \in OwnerOps \cup { "confirmCook" }) =>
                  \A id \in DOMAIN pantry :
                      pantry[id].userId # proc'[p].userId =>
                          id \in DOMAIN pantry' /\ pantry'[id] = pantry[id]]_vars

\* C27 witness: a deleteItem and a deductQuantity by users who do not own the
\* row returned null, and the rows are as they were at the start.
C27_Witness ==
    \E p, q \in Procs :
        /\ proc[p].op = "deleteItem" /\ proc[q].op = "deductQuantity"
        /\ proc[p].returned = "null" /\ proc[q].returned = "null"
        /\ proc[p].itemId \in DOMAIN pantry /\ proc[q].itemId \in DOMAIN pantry
        /\ pantry[proc[p].itemId].userId # proc[p].userId
        /\ pantry[proc[q].itemId].userId # proc[q].userId
        /\ pantry = [i \in 1..Len(InitialPantry) |-> InitialPantry[i]]

\* C28: the rows one confirmCook call appends to the auto-replenish list
\* carry pairwise different normalized names.
C28_OneAppendPerNameWithinCall ==
    [][\A p \in Procs :
           (proc[p].pc = "add_items" /\ proc'[p] # proc[p]) =>
               \A j, k \in (Len(groceryListItems) + 1)..Len(groceryListItems') :
                   j # k => NormalizeName(groceryListItems'[j].name)
                                # NormalizeName(groceryListItems'[k].name)]_vars

\* What a deduction reports of its row.
QuantitiesOf(deductions) ==
    [k \in 1..Len(deductions) |->
        << deductions[k].pantryItemId, deductions[k].oldQuantity, deductions[k].newQuantity >>]

\* C29: when a confirmCook follows a previewCook of the same recipe on the
\* same inventory and every deducted amount has at most two decimals, the two
\* report the same sequence of (pantry item, oldQuantity, newQuantity).
C29_ConfirmReportsWhatPreviewReported ==
    \A p, q \in Procs :
        ( /\ PreviewThenConfirm(p, q)
          /\ \A k \in 1..Len(Val(proc[p].preview).unrounded) :
                 Val(proc[p].preview).unrounded[k] % 10 = 0 ) =>
            QuantitiesOf(proc[q].executedDeductions)
                = QuantitiesOf(Val(proc[p].preview).deductions)

\* C30: when two confirmCook calls of one user, overlapping or not, have both
\* returned and each confirmed one candidate, of the same normalized name, the
\* user's auto-replenish list holds at most one row of that name.
C30_ConcurrentConfirmsLeaveOneEntry ==
    \A p, q \in Procs :
        ( /\ p # q
          /\ proc[p].op = "confirmCook" /\ proc[q].op = "confirmCook"
          /\ proc[p].returned = "value" /\ proc[q].returned = "value"
          /\ proc[p].userId = proc[q].userId
          /\ Len(proc[p].replenishItems) = 1 /\ Len(proc[q].replenishItems) = 1
          /\ NormalizeName(proc[p].replenishItems[1].name)
                 = NormalizeName(proc[q].replenishItems[1].name) ) =>
            \A i \in AutoReplenishLists(proc[p].userId) :
                Cardinality(RowsNamed(groceryListItems, groceryLists[i].id,
                                      NormalizeName(proc[p].replenishItems[1].name))) <= 1

====
